---------------------------- MODULE Spec2Model ----------------------------
(***************************************************************************)
(* A model of the execution engine of a hypercube node:                    *)
(*   - TransactionProcessor (src/src/transaction_processor.rs): the        *)
(*     account store, the last-id ring with its per-tip signature status   *)
(*     maps, and the batch executor process_transactions;                  *)
(*   - Pod / PodRecorder (src/src/pod.rs, src/src/pod_recorder.rs): the    *)
(*     serial hasher and the recorder that registers and sends entries.    *)
(*                                                                         *)
(* Pubkeys, program ids and hashes are small naturals.  The hash function  *)
(* is modelled as an injective function (no collisions); a signature is    *)
(* an injective function of the signed data.                               *)
(***************************************************************************)
EXTENDS Integers, Sequences, FiniteSets, TLC

VARIABLES
    accounts,           \* TransactionProcessor.accounts: pubkey -> Account
    last_ids,           \* TransactionProcessor.last_ids: FIFO of tips
    last_ids_sigs,      \* TransactionProcessor.last_ids_sigs: tip -> (signature -> status)
    transaction_count,  \* TransactionProcessor.transaction_count
    lastOp,             \* history: the operation that led to this state
    lastTxs,            \* history: the batch of the last process_transactions call
    lastRes,            \* history: the results that call returned
    pre,                \* history: the processor state before the last operation
    okTotal,            \* history: number of Ok results returned since construction
    okReserves,         \* history: <<signature, tip>> -> number of Ok reservations
    age,                \* history: tip -> registrations that followed its latest one
    submitted,          \* history: signatures submitted so far
    registered,         \* history: register_entry_id calls so far
    pod,                \* PodRecorder.pod: the Pod behind the mutex
    lock,               \* the thread that holds the pod mutex
    pc,                 \* thread -> its position in PodRecorder::tick / record
    tick,               \* thread -> the PodEntry `tick` it holds in tick / record
    chan,               \* the entry channel: the entries sent, in order
    regOrder,           \* history: the ids the recorder registered, in order
    podOps,             \* history: Pod operations so far
    verified,           \* the verified-packets channel: the messages in flight
    verified_sender,    \* TRUE until the verified-packets sender is dropped
    entry_receiver,     \* TRUE until the entry receiver is dropped
    received,           \* the number of entries the entry receiver has taken
    pod_exit,           \* the AtomicBool shared by the two threads of the stage
    loc,                \* thread -> its position in its loop of the stage
    mms,                \* execute thread: the transactions left of the message
    processed,          \* execute thread: processed_transactions of the chunk
    entryTxs,           \* for each entry of chan, the transactions it carries
    config,             \* Config: hashes rolled before each tick (0 is Sleep)
    rolled,             \* tick producer: hashes rolled in this iteration
    ticks,              \* history: iterations the tick producer has started
    offered,            \* history: the packets sent on the verified channel
    commitLog,          \* history: the transactions the executor returned Ok for
    start,              \* history: the processor state the stage started from
    ledger,             \* the entries of the ledger the nodes replay
    node_state,         \* node -> its TransactionProcessor
    node_ledger,        \* node -> what its process_ledger call returned
    further,            \* node -> the transfers made after the replay, with their results
    replayed,           \* history: node -> the entries its replicate stage applied
    votes,              \* history: node -> the votes its replicate stage sent
    fullnode,           \* node -> its Fullnode: role, flags, threads, processor, ledger
    feed,               \* the entries the network's leader sends as blobs
    transitions,        \* history: node -> what handle_role_transition did, in order
    leader_vote,             \* one call of get_last_id_to_vote_on: its arguments and its result
    metrics,            \* the MetricsAgent: its channel, its thread, its writer, its callers
    vote_loop           \* the thread of the replicate stage: its clock and its vote slots

procVars == <<accounts, last_ids, last_ids_sigs, transaction_count, lastOp, lastTxs,
              lastRes, pre, okTotal, okReserves, age, submitted, registered>>

podVars == <<pod, lock, pc, tick, chan, regOrder, podOps>>

stageVars == <<verified, verified_sender, entry_receiver, received, pod_exit, loc, mms,
               processed, entryTxs, config, rolled, ticks, offered, commitLog, start>>

ledgerVars == <<ledger, node_state, node_ledger, further, replayed, votes>>

nodeVars == <<fullnode, feed, transitions>>

serviceVars == <<leader_vote, metrics, vote_loop>>

vars == <<procVars, podVars, stageVars, ledgerVars, nodeVars, serviceVars>>

\* ------------------------------------------------------------------ bounds

\* Number of account pubkeys; pubkey 1 is the mint.
NumKeys == 2
\* Program ids are 0..NumPrograms: 0 is the System program, the others are
\* ids of programs that are neither built in nor loaded.
NumPrograms == 1
\* Fees offered by transactions are 0..MaxFee.
MaxFee == 2
\* Token amounts named by instructions are -1 and 1..MaxTokens.
MaxTokens == 1
\* Tokens of the mint at construction are 1..MaxMint.
MaxMint == 3
\* Capacity of the last-id ring (MAX_ENTRY_IDS, scaled down from 16384).
MAX_ENTRY_IDS == 2
\* Tips are hashes 0..NumHashes; 0 is the mint's last_id.
NumHashes == 2
\* Number of signatures submitted in one behaviour (in transactions or in
\* direct reserves).
MaxTxs == 2
\* Number of register_entry_id calls in one behaviour of the ring
\* specification.
MaxRegs == 3
\* Number of Pod operations (hash, tick, record) in one behaviour of the
\* recorder specification.
MaxPodOps == 4
\* Longest batch handed to process_transactions.
MaxBatch == 2
\* Mixins (digests of transaction batches) are 1..NumMixins.
NumMixins == 1
\* Transactions that fit in one entry (Entry::num_will_fit, scaled down).
EntryCapacity == 2
\* Packets in one message of the verified-packets channel.
MaxPackets == 2
\* Messages sent on the verified-packets channel in one behaviour.
MaxMsgs == 1
\* Iterations the tick producer starts while nothing has asked the stage to
\* stop; once a channel is disconnected or pod_exit is set it runs on.
MaxTicks == 2
\* Config::Tick(num) has num in 1..MaxRoll; 0 stands for Config::Sleep.
MaxRoll == 1

\* ------------------------------------------------------------- basic data

Keys == 1..NumKeys
MintKey == 1
SystemProgramId == 0
ProgramIds == 0..NumPrograms
\* FinPlanState::id(), the id of the budget program.
FinPlanProgramId == NumPrograms + 1
MintLastId == 0

\* The transactions clients submit to the leader's stage, all naming the
\* mint's last_id: two transfers of one token from the mint to pubkey 2, with
\* fee 0 and fee 1, and a budget contract of one token that offers a fee of
\* two tokens.
StageTxs ==
    << [keys |-> <<1, 2>>, program_id |-> SystemProgramId, last_id |-> MintLastId,
        fee |-> 0, userdata |-> <<"Move", 1>>],
       [keys |-> <<1, 2>>, program_id |-> SystemProgramId, last_id |-> MintLastId,
        fee |-> 1, userdata |-> <<"Move", 1>>],
       [keys |-> <<1, 2>>, program_id |-> FinPlanProgramId, last_id |-> MintLastId,
        fee |-> 2, userdata |-> <<"NewContract", 1, 1>>] >>

\* Transaction::hash(transactions), the mixin of a Work entry: an injective
\* function of the signatures, the numeral in base Len(StageTxs) + 1 of the
\* transactions' indexes in StageTxs, placed after the mixins 1..NumMixins.
TxIndex(tx) == CHOOSE i \in 1..Len(StageTxs) : StageTxs[i] = tx
RECURSIVE TxCode(_, _)
TxCode(txs, code) ==
    IF txs = <<>> THEN code
    ELSE TxCode(Tail(txs), code * (Len(StageTxs) + 1) + TxIndex(txs[1]))
Transaction_hash(transactions) == NumMixins + TxCode(transactions, 0)
RECURSIVE Power(_, _)
Power(b, n) == IF n = 0 THEN 1 ELSE b * Power(b, n - 1)
MaxTxCode == Power(Len(StageTxs) + 1, EntryCapacity) - 1

\* hash and hashv as injective functions on naturals: a hash value is read
\* as a numeral in base HashBase whose digits (all >= 1) list, oldest first,
\* the hash steps that produced it from 0: digit 1 for hash, digit 1 + m for
\* hashv with mixin m.
HashBase == NumMixins + MaxTxCode + 2
hash(h) == h * HashBase + 1
hashv(h, mixin) == h * HashBase + 1 + mixin

\* Account::default(): no tokens, owned by the all-zero program id.
DefaultAccount == [tokens |-> 0, program_id |-> SystemProgramId]

\* HashMap::insert / HashMap::remove on a function with a finite domain.
Put(f, k, v) == [x \in DOMAIN f \cup {k} |-> IF x = k THEN v ELSE f[x]]
Remove(f, k) == [x \in DOMAIN f \ {k} |-> f[x]]
EmptyMap == [x \in {} |-> 0]

\* Signature::default(), the signature the tests reserve directly.
DefaultSignature == <<>>

\* The signature of a transaction: an injective function of the signed data
\* (keys, program_id, last_id, fee, userdata).
Sign(tx) == <<tx.keys, tx.program_id, tx.last_id, tx.fee, tx.userdata>>

\* accounts[i].tokens += n and accounts[i].program_id = p on a slice of
\* accounts.
AddTokens(accts, i, n) ==
    [j \in 1..Len(accts) |->
        IF j = i THEN [tokens |-> accts[j].tokens + n, program_id |-> accts[j].program_id]
                 ELSE accts[j]]
SetProgramId(accts, i, p) ==
    [j \in 1..Len(accts) |->
        IF j = i THEN [tokens |-> accts[j].tokens, program_id |-> p] ELSE accts[j]]

RECURSIVE SumTokens(_)
SumTokens(accts) ==
    IF accts = <<>> THEN 0 ELSE accts[1].tokens + SumTokens(Tail(accts))

\* --------------------------------------------------------- last-id ring

reserve_signature(signatures, signature) ==
    IF signature \in DOMAIN signatures
    THEN [result |-> "DuplicateSignature", signatures |-> signatures]
    ELSE [result |-> "Ok", signatures |-> Put(signatures, signature, "Ok")]

reserve_signature_with_last_id(sigs, signature, last_id) ==
    IF last_id \in DOMAIN sigs
    THEN LET r == reserve_signature(sigs[last_id], signature)
         IN  [result |-> r.result, sigs |-> [sigs EXCEPT ![last_id] = r.signatures]]
    ELSE [result |-> "LastIdNotFound", sigs |-> sigs]

\* update_signature_status with the or_insert kept and the overwrite of the
\* entry left out: a status once present stays.
update_signature_status_or_insert_only(signatures, signature, result) ==
    IF signature \in DOMAIN signatures THEN signatures
    ELSE Put(signatures, signature, result)

update_signature_status(signatures, signature, result) ==
    Put(signatures, signature, result)

update_signature_status_with_last_id(sigs, signature, result, last_id) ==
    IF last_id \in DOMAIN sigs
    THEN [sigs EXCEPT ![last_id] = update_signature_status(@, signature, result)]
    ELSE sigs

RECURSIVE update_transaction_statuses(_, _, _)
update_transaction_statuses(sigs, txs, res) ==
    IF txs = <<>> THEN sigs
    ELSE update_transaction_statuses(
             update_signature_status_with_last_id(sigs, Sign(txs[1]), res[1], txs[1].last_id),
             Tail(txs), Tail(res))

\* register_entry_id on the pair (last_ids, last_ids_sigs).
register_entry_id(ring, last_id) ==
    LET full    == Len(ring.last_ids) >= MAX_ENTRY_IDS
        queue   == IF full THEN Tail(ring.last_ids) ELSE ring.last_ids
        buckets == IF full THEN Remove(ring.last_ids_sigs, Head(ring.last_ids))
                           ELSE ring.last_ids_sigs
    IN  [last_ids      |-> Append(queue, last_id),
         last_ids_sigs |-> Put(buckets, last_id, EmptyMap)]

\* get_signature_status scans the buckets in HashMap order: every status
\* the scan can return.
signature_statuses(sigs, signature) ==
    LET found == {sigs[h][signature] : h \in {g \in DOMAIN sigs : signature \in DOMAIN sigs[g]}}
    IN  IF found = {} THEN {"SignatureNotFound"} ELSE found

\* ------------------------------------------------------------------ pod

\* A PodEntry without a mixin (mixin: None).
NoMixin == 0

Pod_new(last_hash) == [last_hash |-> last_hash, num_hashes |-> 0]

Pod_hash(p) == [last_hash |-> hash(p.last_hash), num_hashes |-> p.num_hashes + 1]

\* Pod::record with the entry's num_hashes taken from self.num_hashes as it
\* is, the hash done by the record itself not counted.
Pod_record_uncounted(p, mixin) ==
    LET last_hash == hashv(p.last_hash, mixin)
    IN  [pod   |-> [last_hash |-> last_hash, num_hashes |-> 0],
         entry |-> [num_hashes |-> p.num_hashes, id |-> last_hash, mixin |-> mixin]]

Pod_record(p, mixin) ==
    LET num_hashes == p.num_hashes + 1
        last_hash  == hashv(p.last_hash, mixin)
    IN  [pod   |-> [last_hash |-> last_hash, num_hashes |-> 0],
         entry |-> [num_hashes |-> num_hashes, id |-> last_hash, mixin |-> mixin]]

Pod_tick(p) ==
    LET hashed == Pod_hash(p)
    IN  [pod   |-> [last_hash |-> hashed.last_hash, num_hashes |-> 0],
         entry |-> [num_hashes |-> hashed.num_hashes, id |-> hashed.last_hash,
                    mixin |-> NoMixin]]

\* hash applied n times.
RECURSIVE hashes(_, _)
hashes(h, n) == IF n <= 0 THEN h ELSE hashes(hash(h), n - 1)

\* verify(initial, entries): FALSE also where the code's assert on
\* num_hashes fails.
RECURSIVE verify(_, _)
verify(initial, entries) ==
    IF entries = <<>> THEN TRUE
    ELSE LET entry     == entries[1]
             last_hash == hashes(initial, entry.num_hashes - 1)
             id        == IF entry.mixin # NoMixin THEN hashv(last_hash, entry.mixin)
                                             ELSE hash(last_hash)
         IN  /\ entry.num_hashes # 0
             /\ id = entry.id
             /\ verify(id, Tail(entries))

\* The threads of TransactionProcessoringStage that share the PodRecorder.
Threads == {"tick_producer", "execute"}
NoThread == "none"

\* A mutex that excludes nobody: lock() returns at once whoever holds it.
Mutex_lock_without_exclusion(holder) == TRUE

\* self.pod.lock(): the call returns when no thread holds the mutex.
Mutex_lock(holder) == holder = NoThread

\* PodRecorder::tick / record returning right after register_entry_id,
\* the entry never sent.
PodRecorder_next_without_send(at) ==
    CASE at = "pod"      -> "register"
      [] at = "register" -> "unlock"
      [] at = "send"     -> "unlock"
      [] OTHER           -> "idle"

\* The statements of PodRecorder::tick and PodRecorder::record after the
\* lock is taken, in program order: the Pod operation, register_entry_id,
\* sender.send, and the drop of the guard at the end of the function.
PodRecorder_next(at) ==
    CASE at = "pod"      -> "register"
      [] at = "register" -> "send"
      [] at = "send"     -> "unlock"
      [] OTHER           -> "idle"

has_signature(sigs, signature) ==
    \E h \in DOMAIN sigs : signature \in DOMAIN sigs[h]

\* ------------------------------------------------------------- executor

load_account(tx, accts, sigs) ==
    IF tx.keys[1] \notin DOMAIN accts
    THEN [result |-> "AccountNotFound", called |-> <<>>, sigs |-> sigs]
    ELSE IF accts[tx.keys[1]].tokens < tx.fee
    THEN [result |-> "InsufficientFundsForFee", called |-> <<>>, sigs |-> sigs]
    ELSE LET called_accounts == [i \in 1..Len(tx.keys) |->
                           IF tx.keys[i] \in DOMAIN accts THEN accts[tx.keys[i]]
                                                          ELSE DefaultAccount]
             r == reserve_signature_with_last_id(sigs, Sign(tx), tx.last_id)
         IN  IF r.result # "Ok"
             THEN [result |-> r.result, called |-> <<>>, sigs |-> r.sigs]
             ELSE [result |-> "Ok",
                   called |-> AddTokens(called_accounts, 1, 0 - tx.fee),
                   sigs   |-> r.sigs]

\* load_accounts: every transaction is loaded from the same account map;
\* the signature reservations accumulate.
RECURSIVE load_accounts(_, _, _)
load_accounts(txs, accts, sigs) ==
    IF txs = <<>> THEN [loaded |-> <<>>, sigs |-> sigs]
    ELSE LET one  == load_account(txs[1], accts, sigs)
             rest == load_accounts(Tail(txs), accts, one.sigs)
         IN  [loaded |-> <<[result |-> one.result, called |-> one.called]>> \o rest.loaded,
              sigs   |-> rest.sigs]

\* SystemProgram::process_transaction: Move and Assign.
SystemProgram_process_transaction(tx, accts) ==
    IF tx.userdata[1] = "Move"
    THEN AddTokens(AddTokens(accts, 1, 0 - tx.userdata[2]), 2, tx.userdata[2])
    ELSE IF accts[1].program_id = SystemProgramId
         THEN SetProgramId(accts, 1, tx.userdata[2])
         ELSE accts

\* The id of a program that a Load instruction of the System program has put
\* into loaded_contracts; no other id is in the map.
LoadedProgramId == NumPrograms + 2
loaded_contracts == {LoadedProgramId}

\* DynamicProgram::call: native code that does to the accounts whatever its
\* userdata says, here a change of one account's owner or a move of one
\* token from one account to another.
DynamicProgram_call(accts, userdata) ==
    IF userdata[1] = "SetOwner"
    THEN SetProgramId(accts, userdata[2], userdata[3])
    ELSE AddTokens(AddTokens(accts, userdata[2], 0 - 1), userdata[3], 1)

\* loaded_contract: the program found under tx.program_id is called on the
\* accounts; no program is found for any other id.
loaded_contract(tx, accts) ==
    IF tx.program_id \in loaded_contracts
    THEN [known |-> TRUE, accounts |-> DynamicProgram_call(accts, tx.userdata)]
    ELSE [known |-> FALSE, accounts |-> accts]

\* verify_transaction without its last check (account.tokens < 0).
verify_transaction_without_negative_check(tx, pre_program_id, pre_tokens, account) ==
    IF ~( pre_program_id = account.program_id
          \/ (tx.program_id = SystemProgramId /\ pre_program_id = SystemProgramId) )
    THEN "ModifiedContractId"
    ELSE IF tx.program_id # account.program_id /\ pre_tokens > account.tokens
    THEN "ExternalAccountTokenSpend"
    ELSE "Ok"

verify_transaction(tx, pre_program_id, pre_tokens, account) ==
    IF ~( pre_program_id = account.program_id
          \/ (tx.program_id = SystemProgramId /\ pre_program_id = SystemProgramId) )
    THEN "ModifiedContractId"
    ELSE IF tx.program_id # account.program_id /\ pre_tokens > account.tokens
    THEN "ExternalAccountTokenSpend"
    ELSE IF account.tokens < 0
    THEN "ResultWithNegativeTokens"
    ELSE "Ok"

\* verify_transaction on the first account only.
verify_all_first_account(tx, pre_data, post, i) ==
    IF i > Len(post) THEN "Ok"
    ELSE verify_transaction(tx, pre_data[i].program_id, pre_data[i].tokens, post[i])

\* The first error of verify_transaction over the accounts, in order.
RECURSIVE verify_all(_, _, _, _)
verify_all(tx, pre_data, post, i) ==
    IF i > Len(post) THEN "Ok"
    ELSE LET v == verify_transaction(tx, pre_data[i].program_id, pre_data[i].tokens, post[i])
         IN  IF v # "Ok" THEN v ELSE verify_all(tx, pre_data, post, i + 1)

\* The program dispatch of execute_transaction: whether a program is known
\* under tx.program_id, and the accounts as it leaves them.
dispatch(tx, called) ==
    IF tx.program_id = SystemProgramId
    THEN [known |-> TRUE, accounts |-> SystemProgram_process_transaction(tx, called)]
    ELSE loaded_contract(tx, called)

\* execute_transaction: the result and the accounts as the program left them.
execute_transaction(tx, called) ==
    LET pre_total == SumTokens(called)
        ran       == dispatch(tx, called)
        verdict   == verify_all(tx, called, ran.accounts, 1)
    IN  IF ~ran.known THEN [result |-> "UnknownContractId", accounts |-> ran.accounts]
        ELSE IF verdict # "Ok" THEN [result |-> verdict, accounts |-> ran.accounts]
        ELSE IF pre_total # SumTokens(ran.accounts)
        THEN [result |-> "UnbalancedTransaction", accounts |-> ran.accounts]
        ELSE [result |-> "Ok", accounts |-> ran.accounts]

\* The inner loop of store_accounts without the removal of an account whose
\* tokens are 0.
RECURSIVE store_one_without_remove(_, _, _)
store_one_without_remove(keys, acc, accts) ==
    IF keys = <<>> THEN accts
    ELSE store_one_without_remove(Tail(keys), Tail(acc), Put(accts, keys[1], acc[1]))

\* The inner loop of store_accounts: one transaction's accounts, key by key.
RECURSIVE store_one(_, _, _)
store_one(keys, acc, accts) ==
    IF keys = <<>> THEN accts
    ELSE store_one(Tail(keys), Tail(acc),
                   IF acc[1].tokens = 0 THEN Remove(accts, keys[1])
                                        ELSE Put(accts, keys[1], acc[1]))

\* store_accounts skipping only the transactions that failed to load
\* (racc.is_err()), not those whose execution failed (res[i].is_err()).
RECURSIVE store_accounts_of_failed_executions(_, _, _, _)
store_accounts_of_failed_executions(txs, res, loaded, accts) ==
    IF txs = <<>> THEN accts
    ELSE store_accounts_of_failed_executions(
             Tail(txs), Tail(res), Tail(loaded),
             IF loaded[1] = <<>> THEN accts
             ELSE store_one(txs[1].keys, loaded[1], accts))

RECURSIVE store_accounts(_, _, _, _)
store_accounts(txs, res, loaded, accts) ==
    IF txs = <<>> THEN accts
    ELSE store_accounts(Tail(txs), Tail(res), Tail(loaded),
                        IF res[1] # "Ok" THEN accts
                        ELSE store_one(txs[1].keys, loaded[1], accts))

NumOk(res) == Cardinality({i \in DOMAIN res : res[i] = "Ok"})

\* process_transactions that loads, executes and stores the transactions one
\* after the other, each from the accounts the one before it left.
RECURSIVE process_transactions_one_by_one(_, _)
process_transactions_one_by_one(st, txs) ==
    IF txs = <<>> THEN [res |-> <<>>, state |-> st]
    ELSE LET ld   == load_accounts(<<txs[1]>>, st.accounts, st.last_ids_sigs)
             exec == IF ld.loaded[1].result # "Ok"
                     THEN [result |-> ld.loaded[1].result, accounts |-> <<>>]
                     ELSE execute_transaction(txs[1], ld.loaded[1].called)
             one  == [accounts          |-> store_accounts(<<txs[1]>>, <<exec.result>>,
                                                           <<exec.accounts>>, st.accounts),
                      last_ids          |-> st.last_ids,
                      last_ids_sigs     |-> update_transaction_statuses(
                                                ld.sigs, <<txs[1]>>, <<exec.result>>),
                      transaction_count |-> st.transaction_count
                                                + NumOk(<<exec.result>>)]
             rest == process_transactions_one_by_one(one, Tail(txs))
         IN  [res |-> <<exec.result>> \o rest.res, state |-> rest.state]

\* process_transactions on the state st = [accounts, last_ids, last_ids_sigs,
\* transaction_count]: the results and the state it leaves.
process_transactions(st, txs) ==
    LET ld     == load_accounts(txs, st.accounts, st.last_ids_sigs)
        exec   == [i \in 1..Len(txs) |->
                      IF ld.loaded[i].result # "Ok"
                      THEN [result |-> ld.loaded[i].result, accounts |-> <<>>]
                      ELSE execute_transaction(txs[i], ld.loaded[i].called)]
        res    == [i \in 1..Len(txs) |-> exec[i].result]
        loaded == [i \in 1..Len(txs) |-> exec[i].accounts]
    IN  [res   |-> res,
         state |-> [accounts          |-> store_accounts(txs, res, loaded, st.accounts),
                    last_ids          |-> st.last_ids,
                    last_ids_sigs     |-> update_transaction_statuses(ld.sigs, txs, res),
                    transaction_count |-> st.transaction_count + NumOk(res)]]


\* The first error among the results, "Ok" if there is none.
RECURSIVE FirstError(_)
FirstError(res) ==
    IF res = <<>> THEN "Ok"
    ELSE IF res[1] # "Ok" THEN res[1] ELSE FirstError(Tail(res))

\* The end of process_entry, out being what process_transactions returned
\* and left: the first error is returned (result?), otherwise the entry's id
\* is registered.
process_entry_register(out, id) ==
    LET ring == register_entry_id([last_ids |-> out.state.last_ids,
                                   last_ids_sigs |-> out.state.last_ids_sigs], id)
    IN  IF FirstError(out.res) # "Ok"
        THEN [result |-> FirstError(out.res), res |-> out.res, state |-> out.state]
        ELSE [result |-> "Ok", res |-> out.res,
              state |-> [accounts          |-> out.state.accounts,
                         last_ids          |-> ring.last_ids,
                         last_ids_sigs     |-> ring.last_ids_sigs,
                         transaction_count |-> out.state.transaction_count]]

\* process_entry on the state st, for entry = [id, transactions].
\* process_entry_without_ticks is process_entry that returns Ok for an entry
\* without transactions and leaves its id unregistered.
process_entry_without_ticks(st, entry) ==
    IF entry.transactions # <<>>
    THEN process_entry_register(process_transactions(st, entry.transactions), entry.id)
    ELSE [result |-> "Ok", res |-> <<>>, state |-> st]
process_entry(st, entry) ==
    process_entry_register(
        IF entry.transactions # <<>>
        THEN process_transactions(st, entry.transactions)
        ELSE [res |-> <<>>, state |-> st],
        entry.id)

\* process_entries on the state st: the entries go through process_entry
\* in order up to the first error (`?`).  after is what process_entry
\* returned for the entry before rest.
RECURSIVE process_entries(_, _)
process_entries_rest(after, rest) ==
    IF after.result # "Ok" THEN [result |-> after.result, state |-> after.state]
    ELSE process_entries(after.state, rest)
process_entries(st, entries) ==
    IF entries = <<>> THEN [result |-> "Ok", state |-> st]
    ELSE process_entries_rest(process_entry(st, entries[1]), Tail(entries))

\* ------------------------------------------------------------ the state

Processor == [accounts |-> accounts, last_ids |-> last_ids,
              last_ids_sigs |-> last_ids_sigs, transaction_count |-> transaction_count]

Hashes == 0..NumHashes
Amounts == {-1} \cup 1..MaxTokens
Instructions == {<<"Move", t>> : t \in Amounts} \cup {<<"Assign", p>> : p \in 1..NumPrograms}
KeyLists == {<<a, b>> : a \in Keys, b \in Keys}

\* Transactions of the executor specification: every key list, program, fee
\* and instruction, all naming the mint's last_id.
Txs == [keys : KeyLists, program_id : ProgramIds, last_id : {MintLastId},
        fee : 0..MaxFee, userdata : Instructions]

Batches(universe, n) ==
    UNION {[1..k -> universe] : k \in 1..n}

Min(a, b) == IF a < b THEN a ELSE b

\* ------------------------------------------------------------ the ledger

\* window::WINDOW_SIZE, the capacity of the tail (scaled down from 2048).
WINDOW_SIZE == 3
\* VERIFY_BLOCK_SIZE (scaled down from 16).
VERIFY_BLOCK_SIZE == 2
\* The longest ledger handed to process_ledger, genesis included.
MaxLedger == 5
\* The nodes that replay the ledger are 0..NumNodes - 1.
NumNodes == 2
\* The transfers made on a node after its replay.
MaxFurther == 1
\* The entries a node's replicate stage receives.
MaxReplay == 2

Nodes == 0..(NumNodes - 1)

\* Mint::seed(), the id of the first entry of a ledger.
Seed == MintLastId

\* The id of an entry that follows the tip start_hash: hash iterated
\* num_hashes times for a tick; for transactions, the hash of the tip hashed
\* num_hashes - 1 times and of the hash of the transactions.
next_hash(start_hash, num_hashes, transactions) ==
    IF transactions = <<>> THEN hashes(start_hash, num_hashes)
    ELSE hashv(hashes(start_hash, num_hashes - 1), Transaction_hash(transactions))

\* Entry::verify: the entry's id re-derived from start_hash.
Entry_verify(entry, start_hash) ==
    entry.id = next_hash(start_hash, entry.num_hashes, entry.transactions)

\* Block::verify: every entry of the block against the id of the entry
\* before it, the first one against start_hash.
Block_verify(block, start_hash) ==
    \A i \in 1..Len(block) :
        Entry_verify(block[i], IF i = 1 THEN start_hash ELSE block[i - 1].id)

\* TransactionProcessor::default(): no account, no tip.
DefaultProcessor ==
    [accounts |-> EmptyMap, last_ids |-> <<>>, last_ids_sigs |-> EmptyMap,
     transaction_count |-> 0]

\* process_entries_tail on the state st.  tail and tail_idx are the
\* caller's; applied lists the entries handed to process_entry.  The loop
\* stops at the first entry process_entry fails for (`?`).
RECURSIVE process_entries_tail_from(_, _, _, _, _, _)
process_entries_tail_next(out, rest, tail, tail_idx, entry_count, applied) ==
    IF out.result # "Ok"
    THEN [result |-> out.result, state |-> out.state, entry_count |-> entry_count,
          tail |-> tail, tail_idx |-> tail_idx, applied |-> applied]
    ELSE process_entries_tail_from(out.state, rest, tail, tail_idx, entry_count, applied)
process_entries_tail_from(st, entries, tail, tail_idx, entry_count, applied) ==
    IF entries = <<>>
    THEN [result |-> "Ok", state |-> st, entry_count |-> entry_count,
          tail |-> tail, tail_idx |-> tail_idx, applied |-> applied]
    ELSE process_entries_tail_next(
             process_entry(st, entries[1]), Tail(entries),
             IF Len(tail) > tail_idx
             THEN [i \in 1..Len(tail) |-> IF i = tail_idx + 1 THEN entries[1] ELSE tail[i]]
             ELSE Append(tail, entries[1]),
             (tail_idx + 1) % WINDOW_SIZE, entry_count + 1, Append(applied, entries[1]))
process_entries_tail(st, entries, tail, tail_idx) ==
    process_entries_tail_from(st, entries, tail, tail_idx, 0, <<>>)

\* One block of process_blocks with the verification left out.
process_blocks_block_unverified(st, id, block, tail, tail_idx) ==
    process_entries_tail(st, block, tail, tail_idx)

\* One block of process_blocks: the block is verified against id, the id of
\* the entry before it, and only then handed to process_entries_tail.
process_blocks_block(st, id, block, tail, tail_idx) ==
    IF ~Block_verify(block, id)
    THEN [result |-> "LedgerVerificationFailed", state |-> st, entry_count |-> 0,
          tail |-> tail, tail_idx |-> tail_idx, applied |-> <<>>]
    ELSE process_entries_tail(st, block, tail, tail_idx)

\* process_blocks: the entries in chunks of VERIFY_BLOCK_SIZE; id is the
\* start_hash, then the id of the last entry of the block before.
RECURSIVE process_blocks_from(_, _, _, _, _, _, _)
process_blocks_next(after, id, rest, entry_count, applied) ==
    IF after.result # "Ok"
    THEN [result |-> after.result, state |-> after.state, entry_count |-> entry_count,
          tail |-> after.tail, tail_idx |-> after.tail_idx,
          applied |-> applied \o after.applied]
    ELSE process_blocks_from(after.state, id, rest, after.tail, after.tail_idx,
                             entry_count + after.entry_count, applied \o after.applied)
process_blocks_from(st, id, entries, tail, tail_idx, entry_count, applied) ==
    IF entries = <<>>
    THEN [result |-> "Ok", state |-> st, entry_count |-> entry_count,
          tail |-> tail, tail_idx |-> tail_idx, applied |-> applied]
    ELSE process_blocks_next(
             process_blocks_block(st, id, SubSeq(entries, 1, Min(VERIFY_BLOCK_SIZE, Len(entries))),
                                  tail, tail_idx),
             entries[Min(VERIFY_BLOCK_SIZE, Len(entries))].id,
             SubSeq(entries, Min(VERIFY_BLOCK_SIZE, Len(entries)) + 1, Len(entries)),
             entry_count, applied)
process_blocks(st, start_hash, entries, tail, tail_idx) ==
    process_blocks_from(st, start_hash, entries, tail, tail_idx, tail_idx, <<>>)

\* slice::rotate_left.
rotate_left(v, mid) == SubSeq(v, mid + 1, Len(v)) \o SubSeq(v, 1, mid)

\* The tail process_ledger returns, left as process_blocks filled it.
process_ledger_tail_unrotated(tail, tail_idx) == tail

\* The tail process_ledger returns: rotated so that it starts with its
\* oldest entry once the tail is full.
process_ledger_tail(tail, tail_idx) ==
    IF Len(tail) = WINDOW_SIZE THEN rotate_left(tail, tail_idx) ELSE tail

\* The genesis of process_ledger: the deposit of entry1's first transaction
\* goes to its first key, then the ids of entry0 and entry1 are registered.
process_ledger_genesis(st, entry0, entry1) ==
    LET tx      == entry1.transactions[1]
        account == IF tx.keys[1] \in DOMAIN st.accounts THEN st.accounts[tx.keys[1]]
                                                        ELSE DefaultAccount
        ring    == register_entry_id(
                       register_entry_id([last_ids |-> st.last_ids,
                                          last_ids_sigs |-> st.last_ids_sigs], entry0.id),
                       entry1.id)
    IN  [accounts          |-> Put(st.accounts, tx.keys[1],
                                   [tokens |-> account.tokens + tx.userdata[2],
                                    program_id |-> account.program_id]),
         last_ids          |-> ring.last_ids,
         last_ids_sigs     |-> ring.last_ids_sigs,
         transaction_count |-> st.transaction_count]

\* What process_ledger expects of the entries, and panics without: two
\* entries, and a first transaction of the second entry (indexed without a
\* check) that is a Move of the System program.
process_ledger_expects(entries) ==
    /\ Len(entries) >= 2
    /\ entries[2].transactions # <<>>
    /\ entries[2].transactions[1].program_id = SystemProgramId
    /\ entries[2].transactions[1].userdata[1] = "Move"

\* process_ledger on the state st: the result ("Panic" where the thread
\* panics), the state it leaves, the height and the tail it returns, and
\* the entries it handed to process_entry.
process_ledger_return(blocks) ==
    IF blocks.result # "Ok"
    THEN [result |-> blocks.result, state |-> blocks.state, height |-> 0, tail |-> <<>>,
          applied |-> blocks.applied]
    ELSE [result |-> "Ok", state |-> blocks.state, height |-> blocks.entry_count,
          tail |-> process_ledger_tail(blocks.tail, blocks.tail_idx),
          applied |-> blocks.applied]
process_ledger(st, entries) ==
    IF ~process_ledger_expects(entries)
    THEN [result |-> "Panic", state |-> st, height |-> 0, tail |-> <<>>, applied |-> <<>>]
    ELSE process_ledger_return(
             process_blocks(process_ledger_genesis(st, entries[1], entries[2]), entries[2].id,
                            SubSeq(entries, 3, Len(entries)), <<entries[1], entries[2]>>, 2))

\* BTreeMap::insert on the sequence of the map's pairs in the order of their
\* keys.
BTreeMap_insert(map, k, v) ==
    SelectSeq(map, LAMBDA pair : pair[1] < k) \o <<(<<k, v>>)>>
        \o SelectSeq(map, LAMBDA pair : pair[1] > k)

\* The loop of hash_internal_state: the accounts, in the order the HashMap
\* yields their pubkeys, inserted in ordered_accounts.
RECURSIVE ordered_accounts(_, _, _)
ordered_accounts(map, accts, order) ==
    IF order = <<>> THEN map
    ELSE ordered_accounts(BTreeMap_insert(map, order[1], accts[order[1]]), accts, Tail(order))

\* hash_internal_state: order is the order in which the accounts HashMap
\* yields its pubkeys.  The hash is injective: the serialized pairs stand
\* for their hash.  hash_internal_state_in_map_order is the hash taken over
\* the pairs as the HashMap yields them.
hash_internal_state_in_map_order(accts, order) ==
    [i \in 1..Len(order) |-> <<order[i], accts[order[i]]>>]
hash_internal_state(accts, order) == ordered_accounts(<<>>, accts, order)

\* A node that has not run process_ledger yet.
NotRun == [result |-> "None", height |-> 0, tail |-> <<>>, applied |-> <<>>]

\* Every node starts with TransactionProcessor::default() and the ledger l.
InitNodes(l) ==
    /\ ledger = l
    /\ node_state = [n \in Nodes |-> DefaultProcessor]
    /\ node_ledger = [n \in Nodes |-> NotRun]
    /\ further = [n \in Nodes |-> <<>>]
    /\ replayed = [n \in Nodes |-> <<>>]
    /\ votes = [n \in Nodes |-> <<>>]

\* No Fullnode has been constructed.
NoFullnode ==
    [node_role |-> "None", exit |-> FALSE, rpu_exit |-> FALSE, service_exit |-> FALSE,
     running |-> {}, entry_height |-> 0, height |-> 0, rotation |-> 0,
     transaction_processor |-> DefaultProcessor, ledger |-> <<>>, window |-> {},
     window_channel |-> <<>>, pending |-> <<>>, schedule |-> <<>>,
     joined |-> FALSE, returned |-> "None", arrived |-> <<>>,
         waiting |-> {}]

InitNoFullnode ==
    /\ fullnode = [n \in Nodes |-> NoFullnode]
    /\ feed = <<>>
    /\ transitions = [n \in Nodes |-> <<>>]

\* No call of get_last_id_to_vote_on yet, over no candidates.
NoLeaderVote ==
    [ids |-> <<>>, stamps |-> EmptyMap, clock |-> 1, last_vote |-> 0, result |-> "None",
     last_id |-> 0, timestamp |-> 0, seen |-> EmptyMap, now |-> 0, pre_last_vote |-> 0]

\* No MetricsAgent.
NoMetrics == [phase |-> "none"]

\* No thread of a replicate stage.
NoVoteLoop == [phase |-> "none"]

InitNoService ==
    /\ leader_vote = NoLeaderVote
    /\ metrics = NoMetrics
    /\ vote_loop = NoVoteLoop

\* TransactionProcessor::new(mint): the mint's deposit, and its last_id
\* registered.
InitProcessor(tokens) ==
    /\ accounts = [k \in {MintKey} |-> [tokens |-> tokens, program_id |-> SystemProgramId]]
    /\ last_ids = <<MintLastId>>
    /\ last_ids_sigs = [h \in {MintLastId} |-> EmptyMap]
    /\ transaction_count = 0

InitHistory ==
    /\ lastOp = "new"
    /\ lastTxs = <<>>
    /\ lastRes = <<>>
    /\ pre = [accounts |-> accounts, last_ids |-> last_ids,
              last_ids_sigs |-> last_ids_sigs, transaction_count |-> transaction_count]
    /\ okTotal = 0
    /\ okReserves = EmptyMap
    /\ age = [h \in {MintLastId} |-> 0]
    /\ submitted = 0
    /\ registered = 0

Mixins == 1..NumMixins
NoEntry == [num_hashes |-> 0, id |-> 0, mixin |-> NoMixin]

\* PodRecorder::new: the Pod starts from the processor's last_id().
InitPod ==
    /\ pod = Pod_new(last_ids[Len(last_ids)])
    /\ lock = NoThread
    /\ pc = [t \in Threads |-> "idle"]
    /\ tick = [t \in Threads |-> NoEntry]
    /\ chan = <<>>
    /\ regOrder = <<>>
    /\ podOps = 0

\* A packet of the verified-packets channel: data is the index in StageTxs of
\* the transaction its bytes hold, 0 for bytes that hold none; ver is the
\* verdict of the signature verification.  Every transaction comes with
\* verdict 1, the first one with verdict 0 as well.
StagePackets == [data : 0..Len(StageTxs), ver : {1}] \cup {[data |-> 1, ver |-> 0]}

\* A message of the channel: one batch of packets with their verdicts.
StageMsgs == UNION {[1..n -> StagePackets] : n \in 1..MaxPackets}

\* deserialize_transactions: None (<<>>) for a packet that does not
\* deserialize, Some(tx) (<<tx>>) otherwise.
deserialize_transactions(p) ==
    [i \in 1..Len(p) |-> IF p[i].data \in 1..Len(StageTxs) THEN <<StageTxs[p[i].data]>>
                                                           ELSE <<>>]

\* FinPlan::verify of a plan that pays pay_tokens: the payment is what the
\* contract leaves after the fee.
FinPlan_verify(pay_tokens, spendable_tokens) == pay_tokens = spendable_tokens

\* verify_plan holds of every transaction that is not a NewContract.
verify_plan(tx) ==
    IF tx.userdata[1] = "NewContract"
    THEN /\ tx.fee >= 0
         /\ tx.fee <= tx.userdata[2]
         /\ FinPlan_verify(tx.userdata[3], tx.userdata[2] - tx.fee)
    ELSE TRUE

\* The filter of process_packets with the test of the verdict left out.
RECURSIVE verified_transactions_of_any_verdict(_, _)
verified_transactions_of_any_verdict(transactions, vers) ==
    IF transactions = <<>> THEN <<>>
    ELSE (IF transactions[1] # <<>> /\ verify_plan(transactions[1][1])
          THEN transactions[1] ELSE <<>>)
         \o verified_transactions_of_any_verdict(Tail(transactions), Tail(vers))

\* The filter of process_packets: the transactions that deserialized, pass
\* verify_plan and have a verdict other than 0.
RECURSIVE verified_transactions(_, _)
verified_transactions(transactions, vers) ==
    IF transactions = <<>> THEN <<>>
    ELSE (IF transactions[1] # <<>> /\ verify_plan(transactions[1][1]) /\ vers[1] # 0
          THEN transactions[1] ELSE <<>>)
         \o verified_transactions(Tail(transactions), Tail(vers))

\* Entry::num_will_fit: how many of the transactions fit in one entry.
Entry_num_will_fit(transactions) == Min(Len(transactions), EntryCapacity)

\* The filter_map of the stage's process_transactions with every transaction
\* of the chunk kept, whatever its result.
processed_transactions_unfiltered(chunk, results) == chunk

\* The filter_map of the stage's process_transactions: the transactions of
\* the chunk whose result is Ok.
RECURSIVE processed_transactions(_, _)
processed_transactions(chunk, results) ==
    IF chunk = <<>> THEN <<>>
    ELSE (IF results[1] = "Ok" THEN <<chunk[1]>> ELSE <<>>)
         \o processed_transactions(Tail(chunk), Tail(results))

InitStage(c) ==
    /\ verified = <<>>
    /\ verified_sender = TRUE
    /\ entry_receiver = TRUE
    /\ received = 0
    /\ pod_exit = FALSE
    /\ loc = [t \in Threads |-> IF t = "execute" THEN "recv" ELSE "roll"]
    /\ mms = <<>>
    /\ processed = <<>>
    /\ entryTxs = <<>>
    /\ config = c
    /\ rolled = 0
    /\ ticks = 0
    /\ offered = <<>>
    /\ commitLog = <<>>
    /\ start = [accounts |-> accounts, last_ids |-> last_ids,
                last_ids_sigs |-> last_ids_sigs, transaction_count |-> transaction_count]

Init ==
    /\ \E tokens \in 1..MaxMint : InitProcessor(tokens)
    /\ InitHistory
    /\ InitPod
    /\ InitStage(0)
    /\ InitNodes(<<>>)
    /\ InitNoService
    /\ InitNoFullnode

\* One more Ok reserve of the pair p = <<signature, last_id>>.
Counted(counts, p) ==
    Put(counts, p, IF p \in DOMAIN counts THEN counts[p] + 1 ELSE 1)

\* The signatures load_account reserved in a batch: those of the
\* transactions whose load passed the two fee-payer checks and whose
\* signature was new under a known tip.  loadRes is the per-transaction load
\* result.
RECURSIVE CountReserves(_, _, _)
CountReserves(counts, txs, loadRes) ==
    IF txs = <<>> THEN counts
    ELSE CountReserves(
             IF loadRes[1] = "Ok"
             THEN Counted(counts, <<Sign(txs[1]), txs[1].last_id>>)
             ELSE counts,
             Tail(txs), Tail(loadRes))

LoadResults(st, txs) ==
    LET ld == load_accounts(txs, st.accounts, st.last_ids_sigs)
    IN  [i \in 1..Len(txs) |-> ld.loaded[i].result]

\* One call of process_transactions(txs).
ProcessTransactions(txs) ==
    /\ submitted + Len(txs) <= MaxTxs
    /\ \E out \in {process_transactions(Processor, txs)} :
           /\ accounts' = out.state.accounts
           /\ last_ids' = out.state.last_ids
           /\ last_ids_sigs' = out.state.last_ids_sigs
           /\ transaction_count' = out.state.transaction_count
           /\ lastRes' = out.res
           /\ okTotal' = okTotal + Cardinality({i \in 1..Len(out.res) : out.res[i] = "Ok"})
    /\ lastOp' = "process_transactions"
    /\ lastTxs' = txs
    /\ pre' = Processor
    /\ okReserves' = CountReserves(okReserves, txs, LoadResults(Processor, txs))
    /\ submitted' = submitted + Len(txs)
    /\ UNCHANGED <<age, registered>>
    /\ UNCHANGED podVars
    /\ UNCHANGED stageVars
    /\ UNCHANGED ledgerVars
    /\ UNCHANGED <<nodeVars, serviceVars>>

\* The ages of the tips after register_entry_id(last_id): capped at
\* MAX_ENTRY_IDS.
Aged(a, last_id) ==
    [h \in DOMAIN a \cup {last_id} |->
        IF h = last_id THEN 0 ELSE Min(a[h] + 1, MAX_ENTRY_IDS)]

\* One call of process_entry on the entry that follows the current tip in
\* the chain and carries txs.
ProcessEntry(txs) ==
    /\ submitted + Len(txs) <= MaxTxs
    /\ \E id \in {hash(last_ids[Len(last_ids)])} :
       \E out \in {process_entry(Processor, [id |-> id, transactions |-> txs])} :
           /\ accounts' = out.state.accounts
           /\ last_ids' = out.state.last_ids
           /\ last_ids_sigs' = out.state.last_ids_sigs
           /\ transaction_count' = out.state.transaction_count
           /\ lastRes' = out.res
           /\ okTotal' = okTotal + Cardinality({i \in 1..Len(out.res) : out.res[i] = "Ok"})
           /\ age' = IF out.result = "Ok" THEN Aged(age, id) ELSE age
           /\ registered' = IF out.result = "Ok" THEN registered + 1 ELSE registered
    /\ lastOp' = "process_entry"
    /\ lastTxs' = txs
    /\ pre' = Processor
    /\ okReserves' = CountReserves(okReserves, txs, LoadResults(Processor, txs))
    /\ submitted' = submitted + Len(txs)
    /\ UNCHANGED podVars
    /\ UNCHANGED stageVars
    /\ UNCHANGED ledgerVars
    /\ UNCHANGED <<nodeVars, serviceVars>>

Next ==
    \/ \E txs \in Batches(Txs, Min(MaxBatch, MaxTxs - submitted)) : ProcessEntry(txs)
    \/ \E txs \in Batches(Txs, Min(MaxBatch, MaxTxs - submitted)) : ProcessTransactions(txs)

Spec == Init /\ [][Next]_vars

\* ------------------------------------------------ fees of any sign

\* Transactions whose fee is any i64, here -1..MaxFee: transfers of the
\* System program, and budget contracts of one or two tokens whose plan
\* pays one or two tokens.
FeeTxs ==
    [keys : {<<1, 2>>}, program_id : {SystemProgramId}, last_id : {MintLastId},
     fee : -1..MaxFee, userdata : {<<"Move", 1>>}]
    \cup [keys : {<<1, 2>>}, program_id : {FinPlanProgramId}, last_id : {MintLastId},
          fee : -1..MaxFee,
          userdata : {<<"NewContract", tokens, pay>> : tokens \in 1..2, pay \in 1..2}]

\* process_packets of the execute stage for one packet with a good verdict:
\* the transaction goes to process_transactions if verify_plan holds of it.
ExecuteStage(tx) ==
    /\ verify_plan(tx)
    /\ ProcessTransactions(<<tx>>)

NextFee ==
    \/ \E tx \in FeeTxs : ExecuteStage(tx)
    \/ \E tx \in FeeTxs : ProcessEntry(<<tx>>)

SpecFee == Init /\ [][NextFee]_vars

\* ------------------------------------------------ programs and owners

\* Transactions of the two key lists over distinct keys: transfers of one
\* token and assignments by the System program, and calls of the loaded
\* program that set an account's owner or move a token.
OwnerKeyLists == {<<1, 2>>, <<2, 1>>}
OwnerPrograms == {SystemProgramId, LoadedProgramId}
OwnerTxs ==
    [keys : OwnerKeyLists, program_id : {SystemProgramId}, last_id : {MintLastId},
     fee : {0}, userdata : {<<"Move", 1>>} \cup {<<"Assign", p>> : p \in OwnerPrograms}]
    \cup [keys : OwnerKeyLists, program_id : {LoadedProgramId}, last_id : {MintLastId},
          fee : {0},
          userdata : {<<"SetOwner", i, p>> : i \in 1..2, p \in OwnerPrograms}
                     \cup {<<"Transfer", 1, 2>>, <<"Transfer", 2, 1>>}]

NextOwner ==
    \/ \E tx \in OwnerTxs : ProcessTransactions(<<tx>>)
    \/ \E tx \in OwnerTxs : ProcessEntry(<<tx>>)

SpecOwner == Init /\ [][NextOwner]_vars

\* ------------------------------------------------ the leader's vote

\* The candidates of one call: at most MaxCandidates ids.
MaxCandidates == 3
\* timing::timestamp() at the registrations and at the call: 1..MaxStamp.
MaxStamp == 3
CandidateLists == UNION {[1..n -> Hashes] : n \in 0..MaxCandidates}

\* count_valid_ids: for every candidate that is a key of last_ids_sigs, in
\* the order of the candidates, its index and the timestamp of its
\* registration.
RECURSIVE count_valid_ids(_, _, _)
count_valid_ids(stamps, ids, i) ==
    IF i > Len(ids) THEN <<>>
    ELSE (IF ids[i] \in DOMAIN stamps THEN <<<<i, stamps[ids[i]]>>>> ELSE <<>>)
         \o count_valid_ids(stamps, ids, i + 1)

\* One element put into a sequence sorted by timestamp, after the elements
\* that compare less than or equal to it.
RECURSIVE sort_insert(_, _)
sort_insert(sorted, x) ==
    IF sorted = <<>> THEN <<x>>
    ELSE IF sorted[Len(sorted)][2] <= x[2] THEN Append(sorted, x)
    ELSE Append(sort_insert(SubSeq(sorted, 1, Len(sorted) - 1), x), sorted[Len(sorted)])

\* valid_ids.sort_by(|a, b| a.1.cmp(&b.1)): the stable sort by timestamp.
RECURSIVE sort_by_timestamp(_)
sort_by_timestamp(v) ==
    IF v = <<>> THEN <<>>
    ELSE sort_insert(sort_by_timestamp(SubSeq(v, 1, Len(v) - 1)), v[Len(v)])

\* get_last_id_to_vote_on without the sort.
get_last_id_to_vote_on_unsorted(ids, stamps, now, last_vote) ==
    LET valid_ids == count_valid_ids(stamps, ids, 1)
        super_majority_index == (2 * Len(ids)) \div 3
    IN  IF Len(valid_ids) > super_majority_index
        THEN [result |-> "Ok", last_vote |-> now,
              last_id |-> ids[valid_ids[super_majority_index + 1][1]],
              timestamp |-> valid_ids[super_majority_index + 1][2]]
        ELSE [result |-> "NoValidLastIdsToVoteOn", last_vote |-> last_vote,
              last_id |-> 0, timestamp |-> 0]

get_last_id_to_vote_on(ids, stamps, now, last_vote) ==
    LET valid_ids == sort_by_timestamp(count_valid_ids(stamps, ids, 1))
        super_majority_index == (2 * Len(ids)) \div 3
    IN  IF Len(valid_ids) > super_majority_index
        THEN [result |-> "Ok", last_vote |-> now,
              last_id |-> ids[valid_ids[super_majority_index + 1][1]],
              timestamp |-> valid_ids[super_majority_index + 1][2]]
        ELSE [result |-> "NoValidLastIdsToVoteOn", last_vote |-> last_vote,
              last_id |-> 0, timestamp |-> 0]

\* register_entry_id(h) at the time of the clock: the id is a key of
\* last_ids_sigs with that timestamp.
VoteRegister(h) ==
    /\ leader_vote' = [leader_vote EXCEPT !.stamps = Put(leader_vote.stamps, h, leader_vote.clock)]
    /\ UNCHANGED <<procVars, podVars, stageVars, ledgerVars, nodeVars, metrics, vote_loop>>

\* Time passes.
VoteClock ==
    /\ leader_vote.clock < MaxStamp
    /\ leader_vote' = [leader_vote EXCEPT !.clock = leader_vote.clock + 1]
    /\ UNCHANGED <<procVars, podVars, stageVars, ledgerVars, nodeVars, metrics, vote_loop>>

\* One call of get_last_id_to_vote_on over the candidates, now.
GetLastIdToVoteOn ==
    /\ \E out \in {get_last_id_to_vote_on(leader_vote.ids, leader_vote.stamps, leader_vote.clock,
                                           leader_vote.last_vote)} :
           leader_vote' = [ids |-> leader_vote.ids, stamps |-> leader_vote.stamps, clock |-> leader_vote.clock,
                      last_vote |-> out.last_vote, result |-> out.result,
                      last_id |-> out.last_id, timestamp |-> out.timestamp,
                      seen |-> leader_vote.stamps, now |-> leader_vote.clock,
                      pre_last_vote |-> leader_vote.last_vote]
    /\ UNCHANGED <<procVars, podVars, stageVars, ledgerVars, nodeVars, metrics, vote_loop>>

NextVote ==
    \/ \E h \in Hashes : VoteRegister(h)
    \/ VoteClock
    \/ GetLastIdToVoteOn

InitOfVote ==
    /\ InitProcessor(MaxMint)
    /\ InitHistory
    /\ InitPod
    /\ InitStage(0)
    /\ InitNodes(<<>>)
    /\ InitNoFullnode
    /\ \E ids \in CandidateLists : leader_vote = [NoLeaderVote EXCEPT !.ids = ids]
    /\ metrics = NoMetrics
    /\ vote_loop = NoVoteLoop

SpecVote == InitOfVote /\ [][NextVote]_vars

\* ------------------------------------------------ the metrics agent

\* The threads that submit points, the points each of them submits and the
\* calls of flush (the last of them made by drop).
NumSubmitters == 2
MaxPoints == 2
MaxFlushes == 2
Submitters == 1..NumSubmitters

\* MetricsAgent::new: an empty channel, the thread of run before its first
\* recv_timeout with no points, nothing written.
MetricsAgent_new ==
    [phase |-> "running", channel |-> <<>>, at |-> "recv", points |-> <<>>,
     written |-> <<>>, writes |-> 0, submitted |-> [t \in Submitters |-> 0],
     flush |-> "idle", flushes |-> 0, before |-> {}, dropping |-> FALSE,
     sender |-> TRUE]

\* The points sent to the agent so far.
Submitted(m) == {p \in Submitters \X (1..MaxPoints) : p[2] <= m.submitted[p[1]]}

\* MetricsAgent::submit by thread t: Submit(point) is sent.
MetricsSubmit(t) ==
    /\ metrics.phase = "running"
    /\ ~metrics.dropping
    /\ metrics.submitted[t] < MaxPoints
    /\ metrics' = [metrics EXCEPT
           !.channel = Append(metrics.channel, <<"Submit", <<t, metrics.submitted[t] + 1>>>>),
           !.submitted = [u \in Submitters |->
                             IF u = t THEN metrics.submitted[t] + 1
                                      ELSE metrics.submitted[u]]]
    /\ UNCHANGED <<procVars, podVars, stageVars, ledgerVars, nodeVars, leader_vote, vote_loop>>

\* MetricsAgent::flush up to its barrier.wait(): Flush(barrier) is sent.
\* drop calls flush, and nothing is submitted once drop is running.
MetricsFlush(dropping) ==
    /\ metrics.phase = "running"
    /\ metrics.sender
    /\ ~metrics.dropping
    /\ metrics.flush \in {"idle", "returned"}
    /\ metrics.flushes < MaxFlushes
    /\ metrics' = [metrics EXCEPT
           !.channel = Append(metrics.channel, <<"Flush">>),
           !.flush = "waiting",
           !.flushes = metrics.flushes + 1,
           !.before = Submitted(metrics),
           !.dropping = dropping]
    /\ UNCHANGED <<procVars, podVars, stageVars, ledgerVars, nodeVars, leader_vote, vote_loop>>

\* The Flush arm of run without the call of the writer.
MetricsAgent_flush_without_write(points, written) ==
    [points |-> points, written |-> written]

\* The Flush arm of run before barrier.wait(): the points, if there are
\* any, go to the writer and the buffer is a new one.
MetricsAgent_flush(points, written) ==
    IF points # <<>> THEN [points |-> <<>>, written |-> written \o points]
                     ELSE [points |-> points, written |-> written]

\* run: recv_timeout returns a command.
MetricsRecv ==
    /\ metrics.phase = "running"
    /\ metrics.at = "recv"
    /\ metrics.channel # <<>>
    /\ \E cmd \in {Head(metrics.channel)} :
           IF cmd[1] = "Submit"
           THEN metrics' = [metrics EXCEPT !.channel = Tail(metrics.channel),
                                           !.points = Append(metrics.points, cmd[2]),
                                           !.at = "timer"]
           ELSE \E out \in {MetricsAgent_flush(metrics.points, metrics.written)} :
                    metrics' = [metrics EXCEPT
                        !.channel = Tail(metrics.channel),
                        !.points = out.points,
                        !.written = out.written,
                        !.writes = metrics.writes + (IF out.written # metrics.written
                                                     THEN 1 ELSE 0),
                        !.at = "barrier"]
    /\ UNCHANGED <<procVars, podVars, stageVars, ledgerVars, nodeVars, leader_vote, vote_loop>>

\* Barrier::new(2): the thread of run and the caller of flush have both
\* called wait, and both go on; flush returns, and a flush made by drop is
\* followed by the drop of the sender.
MetricsBarrier ==
    /\ metrics.phase = "running"
    /\ metrics.at = "barrier"
    /\ metrics.flush = "waiting"
    /\ metrics' = [metrics EXCEPT !.at = "timer", !.flush = "returned",
                                    !.sender = ~metrics.dropping]
    /\ UNCHANGED <<procVars, podVars, stageVars, ledgerVars, nodeVars, leader_vote, vote_loop>>

\* run: recv_timeout returns Timeout, or Disconnected when the channel is
\* empty and the sender is dropped, and then the thread leaves its loop.
MetricsTimeout ==
    /\ metrics.phase = "running"
    /\ metrics.at = "recv"
    /\ metrics.channel = <<>>
    /\ metrics' = IF metrics.sender THEN [metrics EXCEPT !.at = "timer"]
                                     ELSE [metrics EXCEPT !.phase = "exited"]
    /\ UNCHANGED <<procVars, podVars, stageVars, ledgerVars, nodeVars, leader_vote, vote_loop>>

\* run, after the match: write_frequency has passed since the last write
\* (due) or not; if it has and there are points, they go to the writer.
MetricsTimer(due) ==
    /\ metrics.phase = "running"
    /\ metrics.at = "timer"
    /\ metrics' = IF due /\ metrics.points # <<>>
                  THEN [metrics EXCEPT !.at = "recv", !.points = <<>>,
                                       !.written = metrics.written \o metrics.points,
                                       !.writes = metrics.writes + 1]
                  ELSE [metrics EXCEPT !.at = "recv"]
    /\ UNCHANGED <<procVars, podVars, stageVars, ledgerVars, nodeVars, leader_vote, vote_loop>>

NextMetrics ==
    \/ \E t \in Submitters : MetricsSubmit(t)
    \/ \E dropping \in BOOLEAN : MetricsFlush(dropping)
    \/ MetricsRecv
    \/ MetricsBarrier
    \/ MetricsTimeout
    \/ \E due \in BOOLEAN : MetricsTimer(due)

InitOfMetrics ==
    /\ InitProcessor(MaxMint)
    /\ InitHistory
    /\ InitPod
    /\ InitStage(0)
    /\ InitNodes(<<>>)
    /\ InitNoFullnode
    /\ leader_vote = NoLeaderVote
    /\ metrics = MetricsAgent_new
    /\ vote_loop = NoVoteLoop

SpecMetrics == InitOfMetrics /\ [][NextMetrics]_vars

\* ------------------------------------------------ the validator's votes

\* The clock of the replicate thread counts ticks of 1/TicksPerSecond
\* second since `now` was taken, up to MaxClock ticks; processing a batch of
\* entries takes 0..MaxStall ticks.
TicksPerSecond == 2
MaxClock == 10
MaxStall == 2

\* The thread of ReplicateStage::new before its loop: now = Instant::now(),
\* next_vote_secs = 1.
ReplicateStage_new ==
    [phase |-> "running", clock |-> 0, at |-> "loop", next_vote_secs |-> 1,
     vote_sender |-> FALSE, waited |-> 0, sent |-> <<>>]

\* now.elapsed().as_secs() at the clock.
as_secs(clock) == clock \div TicksPerSecond

\* The head of the loop: a vote sender is handed to replicate_requests if
\* more than next_vote_secs whole seconds have elapsed, and next_vote_secs
\* is then one more.
VoteLoopHead ==
    /\ vote_loop.phase = "running"
    /\ vote_loop.at = "loop"
    /\ vote_loop' =
           IF as_secs(vote_loop.clock) > vote_loop.next_vote_secs
           THEN [vote_loop EXCEPT !.at = "recv", !.waited = 0, !.vote_sender = TRUE,
                                  !.next_vote_secs = vote_loop.next_vote_secs + 1]
           ELSE [vote_loop EXCEPT !.at = "recv", !.waited = 0, !.vote_sender = FALSE]
    /\ UNCHANGED <<procVars, podVars, stageVars, ledgerVars, nodeVars, leader_vote, metrics>>

\* replicate_requests waits in recv_timeout(timer) while no entries are
\* there: a tick passes.
VoteLoopWait ==
    /\ vote_loop.phase = "running"
    /\ vote_loop.at = "recv"
    /\ vote_loop.waited < TicksPerSecond
    /\ vote_loop.clock < MaxClock
    /\ vote_loop' = [vote_loop EXCEPT !.clock = vote_loop.clock + 1,
                                      !.waited = vote_loop.waited + 1]
    /\ UNCHANGED <<procVars, podVars, stageVars, ledgerVars, nodeVars, leader_vote, metrics>>

\* recv_timeout returns Err(Timeout) after one second: replicate_requests
\* returns it, no vote is sent, and the loop goes on.
VoteLoopTimeout ==
    /\ vote_loop.phase = "running"
    /\ vote_loop.at = "recv"
    /\ vote_loop.waited = TicksPerSecond
    /\ vote_loop' = [vote_loop EXCEPT !.at = "loop"]
    /\ UNCHANGED <<procVars, podVars, stageVars, ledgerVars, nodeVars, leader_vote, metrics>>

\* recv_timeout returns entries before the second is over: they are
\* processed, which takes d ticks,
\* then send_validator_vote sends a vote if there is a vote sender, and the
\* loop goes on.
VoteLoopEntries(d) ==
    /\ vote_loop.phase = "running"
    /\ vote_loop.at = "recv"
    /\ vote_loop.waited < TicksPerSecond
    /\ vote_loop.clock + d <= MaxClock
    /\ vote_loop' = [vote_loop EXCEPT
           !.at = "loop",
           !.clock = vote_loop.clock + d,
           !.sent = IF vote_loop.vote_sender
                    THEN Append(vote_loop.sent, vote_loop.clock + d)
                    ELSE vote_loop.sent]
    /\ UNCHANGED <<procVars, podVars, stageVars, ledgerVars, nodeVars, leader_vote, metrics>>

NextVoteLoop ==
    \/ VoteLoopHead
    \/ VoteLoopWait
    \/ VoteLoopTimeout
    \/ \E d \in 0..MaxStall : VoteLoopEntries(d)

InitOfVoteLoop ==
    /\ InitProcessor(MaxMint)
    /\ InitHistory
    /\ InitPod
    /\ InitStage(0)
    /\ InitNodes(<<>>)
    /\ InitNoFullnode
    /\ leader_vote = NoLeaderVote
    /\ metrics = NoMetrics
    /\ vote_loop = ReplicateStage_new

SpecVoteLoop == InitOfVoteLoop /\ [][NextVoteLoop]_vars

\* ----------------------------------------------- the ring specification

\* Transactions of the ring specification: System transfers of one token
\* between the mint and pubkey 2, in either direction, with any fee, naming
\* any tip.
RingTxs == [keys : {<<1, 2>>, <<2, 1>>}, program_id : {SystemProgramId}, last_id : Hashes,
            fee : 0..MaxFee, userdata : {<<"Move", 1>>}]

\* One call of register_entry_id(last_id).
RegisterEntryId(last_id) ==
    /\ registered < MaxRegs
    /\ LET ring == register_entry_id([last_ids |-> last_ids, last_ids_sigs |-> last_ids_sigs],
                                     last_id)
       IN  /\ last_ids' = ring.last_ids
           /\ last_ids_sigs' = ring.last_ids_sigs
    /\ lastOp' = "register_entry_id"
    /\ lastTxs' = <<>>
    /\ lastRes' = <<>>
    /\ pre' = Processor
    /\ age' = Aged(age, last_id)
    /\ registered' = registered + 1
    /\ UNCHANGED <<accounts, transaction_count, okTotal, okReserves, submitted>>
    /\ UNCHANGED podVars
    /\ UNCHANGED stageVars
    /\ UNCHANGED ledgerVars
    /\ UNCHANGED <<nodeVars, serviceVars>>

\* One call of reserve_signature_with_last_id(Signature::default(), last_id).
ReserveSignature(last_id) ==
    /\ submitted < MaxTxs
    /\ LET r == reserve_signature_with_last_id(last_ids_sigs, DefaultSignature, last_id)
       IN  /\ last_ids_sigs' = r.sigs
           /\ lastRes' = <<r.result>>
           /\ okReserves' = IF r.result = "Ok"
                             THEN Counted(okReserves, <<DefaultSignature, last_id>>)
                             ELSE okReserves
    /\ lastOp' = "reserve_signature_with_last_id"
    /\ lastTxs' = <<>>
    /\ pre' = Processor
    /\ submitted' = submitted + 1
    /\ UNCHANGED <<accounts, last_ids, transaction_count, okTotal, age, registered>>
    /\ UNCHANGED podVars
    /\ UNCHANGED stageVars
    /\ UNCHANGED ledgerVars
    /\ UNCHANGED <<nodeVars, serviceVars>>

NextRing ==
    \/ \E h \in Hashes : RegisterEntryId(h)
    \/ \E h \in Hashes : ReserveSignature(h)
    \/ \E txs \in Batches(RingTxs, Min(MaxBatch, MaxTxs - submitted)) : ProcessTransactions(txs)

SpecRing == Init /\ [][NextRing]_vars

\* ------------------------------------------- the recorder specification

\* PodRecorder::hash by the tick producer: the mutex is held for the
\* Pod::hash alone.
RecorderHash ==
    /\ pc["tick_producer"] = "idle"
    /\ Mutex_lock(lock)
    /\ podOps < MaxPodOps
    /\ pod' = Pod_hash(pod)
    /\ podOps' = podOps + 1
    /\ UNCHANGED <<lock, pc, tick, chan, regOrder>>
    /\ UNCHANGED procVars
    /\ UNCHANGED stageVars
    /\ UNCHANGED ledgerVars
    /\ UNCHANGED <<nodeVars, serviceVars>>

\* self.pod.lock() at the head of PodRecorder::tick (tick producer) and
\* PodRecorder::record (execute thread).
RecorderLock(t) ==
    /\ pc[t] = "idle"
    /\ Mutex_lock(lock)
    /\ podOps < MaxPodOps
    /\ lock' = t
    /\ pc' = [pc EXCEPT ![t] = "pod"]
    /\ UNCHANGED <<pod, tick, chan, regOrder, podOps>>
    /\ UNCHANGED procVars
    /\ UNCHANGED stageVars
    /\ UNCHANGED ledgerVars
    /\ UNCHANGED <<nodeVars, serviceVars>>

\* pod.tick() in PodRecorder::tick.
RecorderTick ==
    /\ pc["tick_producer"] = "pod"
    /\ LET r == Pod_tick(pod)
       IN  /\ pod' = r.pod
           /\ tick' = [tick EXCEPT !["tick_producer"] = r.entry]
    /\ pc' = [pc EXCEPT !["tick_producer"] = PodRecorder_next("pod")]
    /\ podOps' = podOps + 1
    /\ UNCHANGED <<lock, chan, regOrder>>
    /\ UNCHANGED procVars
    /\ UNCHANGED stageVars
    /\ UNCHANGED ledgerVars
    /\ UNCHANGED <<nodeVars, serviceVars>>

\* pod.record(mixin) in PodRecorder::record; the mixin is the hash of the
\* transactions the entry carries.
RecorderRecord(mixin) ==
    /\ pc["execute"] = "pod"
    /\ LET r == Pod_record(pod, mixin)
       IN  /\ pod' = r.pod
           /\ tick' = [tick EXCEPT !["execute"] = r.entry]
    /\ pc' = [pc EXCEPT !["execute"] = PodRecorder_next("pod")]
    /\ podOps' = podOps + 1
    /\ UNCHANGED <<lock, chan, regOrder>>
    /\ UNCHANGED procVars
    /\ UNCHANGED stageVars
    /\ UNCHANGED ledgerVars
    /\ UNCHANGED <<nodeVars, serviceVars>>

\* self.transaction_processor.register_entry_id(&tick.id).
RecorderRegister(t) ==
    /\ pc[t] = "register"
    /\ LET ring == register_entry_id([last_ids |-> last_ids, last_ids_sigs |-> last_ids_sigs],
                                     tick[t].id)
       IN  /\ last_ids' = ring.last_ids
           /\ last_ids_sigs' = ring.last_ids_sigs
    /\ regOrder' = Append(regOrder, tick[t].id)
    /\ age' = Aged(age, tick[t].id)
    /\ registered' = registered + 1
    /\ pc' = [pc EXCEPT ![t] = PodRecorder_next("register")]
    /\ UNCHANGED <<pod, lock, tick, chan, podOps>>
    /\ UNCHANGED <<accounts, transaction_count, lastOp, lastTxs, lastRes, pre, okTotal,
                   okReserves, submitted>>
    /\ UNCHANGED stageVars
    /\ UNCHANGED ledgerVars
    /\ UNCHANGED <<nodeVars, serviceVars>>

\* self.sender.send(vec![entry]): the entry is receivable from here on.
RecorderSend(t) ==
    /\ pc[t] = "send"
    /\ chan' = Append(chan, tick[t])
    /\ pc' = [pc EXCEPT ![t] = PodRecorder_next("send")]
    /\ UNCHANGED <<pod, lock, tick, regOrder, podOps>>
    /\ UNCHANGED procVars
    /\ UNCHANGED stageVars
    /\ UNCHANGED ledgerVars
    /\ UNCHANGED <<nodeVars, serviceVars>>

\* The end of PodRecorder::tick / record: the guard is dropped.
RecorderUnlock(t) ==
    /\ pc[t] = "unlock"
    /\ lock' = NoThread
    /\ pc' = [pc EXCEPT ![t] = PodRecorder_next("unlock")]
    /\ UNCHANGED <<pod, tick, chan, regOrder, podOps>>
    /\ UNCHANGED procVars
    /\ UNCHANGED stageVars
    /\ UNCHANGED ledgerVars
    /\ UNCHANGED <<nodeVars, serviceVars>>

NextPod ==
    \/ RecorderHash
    \/ \E t \in Threads : RecorderLock(t)
    \/ RecorderTick
    \/ \E mixin \in Mixins : RecorderRecord(mixin)
    \/ \E t \in Threads : RecorderRegister(t)
    \/ \E t \in Threads : RecorderSend(t)
    \/ \E t \in Threads : RecorderUnlock(t)

SpecPod == Init /\ [][NextPod]_vars


\* ---------------------------------------------- the stage specification

\* The transactions of txs whose result is Ok, in order.
RECURSIVE OkOnly(_, _)
OkOnly(txs, res) ==
    IF txs = <<>> THEN <<>>
    ELSE (IF res[1] = "Ok" THEN <<txs[1]>> ELSE <<>>) \o OkOnly(Tail(txs), Tail(res))

\* The tick producer starts another iteration of its loop: always once the
\* stage has been asked to stop or the entry receiver is gone (it then runs
\* to its exit), MaxTicks times otherwise.
TickAllowed == ticks < MaxTicks \/ pod_exit \/ ~entry_receiver

\* tick_producer returning after its first pod.tick(), whatever pod_exit
\* holds.
Stage_after_recorder_once(t, position) ==
    IF position = "senderr" \/ t = "tick_producer" THEN "exit" ELSE "chunk"

\* Where a thread of the stage goes on when PodRecorder::tick or record
\* returns: an Err(SendError) ends its loop; Ok leads the tick producer to
\* its load of pod_exit and the execute thread to the next chunk.
Stage_after_recorder(t, position) ==
    IF position = "senderr" THEN "exit"
    ELSE IF t = "tick_producer" THEN "check" ELSE "chunk"

\* The execute loop going on after every error of process_packets.
Execute_after_error_without_break(e) == "check"

\* The execute loop's match on the error of process_packets: Timeout goes
\* on to the load of the exit flag, Disconnected breaks.
Execute_after_error(e) == IF e = "Timeout" THEN "check" ELSE "exit"

\* tick_producer, Config::Tick(num): one pod.hash() of the num.
TickProducerHash ==
    /\ loc["tick_producer"] = "roll"
    /\ rolled < config
    /\ TickAllowed
    /\ Mutex_lock(lock)
    /\ pod' = Pod_hash(pod)
    /\ rolled' = rolled + 1
    /\ podOps' = podOps + 1
    /\ UNCHANGED <<lock, pc, tick, chan, regOrder>>
    /\ UNCHANGED procVars
    /\ UNCHANGED <<verified, verified_sender, entry_receiver, received, pod_exit, loc, mms,
                   processed, entryTxs, config, ticks, offered, commitLog, start>>
    /\ UNCHANGED ledgerVars
    /\ UNCHANGED <<nodeVars, serviceVars>>

\* tick_producer: the hashes (or the sleep) are done; pod.tick() takes the
\* mutex.
TickProducerLock ==
    /\ loc["tick_producer"] = "roll"
    /\ rolled = config
    /\ TickAllowed
    /\ pc["tick_producer"] = "idle"
    /\ Mutex_lock(lock)
    /\ lock' = "tick_producer"
    /\ pc' = [pc EXCEPT !["tick_producer"] = "pod"]
    /\ loc' = [loc EXCEPT !["tick_producer"] = "tick"]
    /\ rolled' = 0
    /\ ticks' = ticks + 1
    /\ UNCHANGED <<pod, tick, chan, regOrder, podOps>>
    /\ UNCHANGED procVars
    /\ UNCHANGED <<verified, verified_sender, entry_receiver, received, pod_exit, mms,
                   processed, entryTxs, config, offered, commitLog, start>>
    /\ UNCHANGED ledgerVars
    /\ UNCHANGED <<nodeVars, serviceVars>>

\* self.sender.send(vec![entry]) in PodRecorder::tick / record: the entry is
\* in the channel if the receiver is connected, Err(SendError) otherwise.
StageSend(t) ==
    /\ pc[t] = "send"
    /\ IF entry_receiver
       THEN /\ chan' = Append(chan, tick[t])
            /\ entryTxs' = Append(entryTxs, IF t = "execute" THEN processed ELSE <<>>)
            /\ loc' = loc
       ELSE /\ loc' = [loc EXCEPT ![t] = "senderr"]
            /\ UNCHANGED <<chan, entryTxs>>
    /\ pc' = [pc EXCEPT ![t] = PodRecorder_next("send")]
    /\ UNCHANGED <<pod, lock, tick, regOrder, podOps>>
    /\ UNCHANGED procVars
    /\ UNCHANGED <<verified, verified_sender, entry_receiver, received, pod_exit, mms,
                   processed, config, rolled, ticks, offered, commitLog, start>>
    /\ UNCHANGED ledgerVars
    /\ UNCHANGED <<nodeVars, serviceVars>>

\* PodRecorder::tick / record returns and its guard is dropped.
StageUnlock(t) ==
    /\ pc[t] = "unlock"
    /\ lock' = NoThread
    /\ pc' = [pc EXCEPT ![t] = PodRecorder_next("unlock")]
    /\ loc' = [loc EXCEPT ![t] = Stage_after_recorder(t, loc[t])]
    /\ UNCHANGED <<pod, tick, chan, regOrder, podOps>>
    /\ UNCHANGED procVars
    /\ UNCHANGED <<verified, verified_sender, entry_receiver, received, pod_exit, mms,
                   processed, entryTxs, config, rolled, ticks, offered, commitLog, start>>
    /\ UNCHANGED ledgerVars
    /\ UNCHANGED <<nodeVars, serviceVars>>

\* The load of the exit flag at the end of a loop iteration of either
\* thread.
StageCheck(t) ==
    /\ loc[t] = "check"
    /\ loc' = [loc EXCEPT ![t] = IF pod_exit THEN "exit"
                                 ELSE IF t = "tick_producer" THEN "roll" ELSE "recv"]
    /\ UNCHANGED podVars
    /\ UNCHANGED procVars
    /\ UNCHANGED <<verified, verified_sender, entry_receiver, received, pod_exit, mms,
                   processed, entryTxs, config, rolled, ticks, offered, commitLog, start>>
    /\ UNCHANGED ledgerVars
    /\ UNCHANGED <<nodeVars, serviceVars>>

\* The store of the exit flag with which either thread ends.
StageExit(t) ==
    /\ loc[t] = "exit"
    /\ pod_exit' = TRUE
    /\ loc' = [loc EXCEPT ![t] = "done"]
    /\ UNCHANGED podVars
    /\ UNCHANGED procVars
    /\ UNCHANGED <<verified, verified_sender, entry_receiver, received, mms,
                   processed, entryTxs, config, rolled, ticks, offered, commitLog, start>>
    /\ UNCHANGED ledgerVars
    /\ UNCHANGED <<nodeVars, serviceVars>>

\* process_packets, recv_timeout: a message if there is one (its packets
\* deserialized and filtered), Disconnected if there is none and the sender
\* is dropped, Timeout otherwise.
ExecuteRecv ==
    /\ loc["execute"] = "recv"
    /\ IF verified # <<>>
       THEN /\ mms' = verified_transactions(deserialize_transactions(Head(verified)),
                                            [i \in 1..Len(Head(verified)) |->
                                                Head(verified)[i].ver])
            /\ verified' = Tail(verified)
            /\ loc' = [loc EXCEPT !["execute"] = "chunk"]
       ELSE /\ loc' = [loc EXCEPT !["execute"] =
                        Execute_after_error(IF verified_sender THEN "Timeout"
                                                               ELSE "Disconnected")]
            /\ UNCHANGED <<mms, verified>>
    /\ UNCHANGED podVars
    /\ UNCHANGED procVars
    /\ UNCHANGED <<verified_sender, entry_receiver, received, pod_exit,
                   processed, entryTxs, config, rolled, ticks, offered, commitLog, start>>
    /\ UNCHANGED ledgerVars
    /\ UNCHANGED <<nodeVars, serviceVars>>

\* process_packets returns Ok: no transaction of the message is left.
ExecuteReturn ==
    /\ loc["execute"] = "chunk"
    /\ mms = <<>>
    /\ loc' = [loc EXCEPT !["execute"] = "check"]
    /\ UNCHANGED podVars
    /\ UNCHANGED procVars
    /\ UNCHANGED <<verified, verified_sender, entry_receiver, received, pod_exit, mms,
                   processed, entryTxs, config, rolled, ticks, offered, commitLog, start>>
    /\ UNCHANGED ledgerVars
    /\ UNCHANGED <<nodeVars, serviceVars>>

\* The stage's process_transactions, one turn of its while loop up to
\* pod.record: the next chunk goes through the processor and the
\* transactions that returned Ok are kept for the entry.
ExecuteChunk ==
    /\ loc["execute"] = "chunk"
    /\ mms # <<>>
    /\ \E chunk_end \in {Entry_num_will_fit(mms)} :
       \E out \in {process_transactions(Processor, SubSeq(mms, 1, chunk_end))} :
       \E kept \in {processed_transactions(SubSeq(mms, 1, chunk_end), out.res)} :
           /\ accounts' = out.state.accounts
           /\ last_ids' = out.state.last_ids
           /\ last_ids_sigs' = out.state.last_ids_sigs
           /\ transaction_count' = out.state.transaction_count
           /\ lastTxs' = SubSeq(mms, 1, chunk_end)
           /\ lastRes' = out.res
           /\ okTotal' = okTotal + NumOk(out.res)
           /\ mms' = SubSeq(mms, chunk_end + 1, Len(mms))
           /\ processed' = kept
           /\ commitLog' = commitLog \o OkOnly(SubSeq(mms, 1, chunk_end), out.res)
           /\ loc' = [loc EXCEPT !["execute"] = IF kept # <<>> THEN "record" ELSE "chunk"]
    /\ lastOp' = "process_transactions"
    /\ pre' = Processor
    /\ UNCHANGED <<okReserves, age, submitted, registered>>
    /\ UNCHANGED podVars
    /\ UNCHANGED <<verified, verified_sender, entry_receiver, received, pod_exit,
                   entryTxs, config, rolled, ticks, offered, start>>
    /\ UNCHANGED ledgerVars
    /\ UNCHANGED <<nodeVars, serviceVars>>

\* pod.record(hash, processed_transactions) takes the mutex.
ExecuteLock ==
    /\ loc["execute"] = "record"
    /\ pc["execute"] = "idle"
    /\ Mutex_lock(lock)
    /\ lock' = "execute"
    /\ pc' = [pc EXCEPT !["execute"] = "pod"]
    /\ UNCHANGED <<pod, tick, chan, regOrder, podOps>>
    /\ UNCHANGED procVars
    /\ UNCHANGED stageVars
    /\ UNCHANGED ledgerVars
    /\ UNCHANGED <<nodeVars, serviceVars>>

\* pod.record(mixin) in PodRecorder::record, the mixin being
\* Transaction::hash(&processed_transactions).
ExecuteRecord ==
    /\ loc["execute"] = "record"
    /\ pc["execute"] = "pod"
    /\ LET r == Pod_record(pod, Transaction_hash(processed))
       IN  /\ pod' = r.pod
           /\ tick' = [tick EXCEPT !["execute"] = r.entry]
    /\ pc' = [pc EXCEPT !["execute"] = PodRecorder_next("pod")]
    /\ podOps' = podOps + 1
    /\ UNCHANGED <<lock, chan, regOrder>>
    /\ UNCHANGED procVars
    /\ UNCHANGED stageVars
    /\ UNCHANGED ledgerVars
    /\ UNCHANGED <<nodeVars, serviceVars>>

\* The signature verification stage sends a message.
SendVerified(msg) ==
    /\ verified_sender
    /\ loc["execute"] # "done"
    /\ Len(offered) < MaxMsgs
    /\ verified' = Append(verified, msg)
    /\ offered' = Append(offered, msg)
    /\ UNCHANGED podVars
    /\ UNCHANGED procVars
    /\ UNCHANGED <<verified_sender, entry_receiver, received, pod_exit, loc, mms,
                   processed, entryTxs, config, rolled, ticks, commitLog, start>>
    /\ UNCHANGED ledgerVars
    /\ UNCHANGED <<nodeVars, serviceVars>>

\* drop(verified_sender).
DropVerifiedSender ==
    /\ verified_sender
    /\ verified_sender' = FALSE
    /\ UNCHANGED podVars
    /\ UNCHANGED procVars
    /\ UNCHANGED <<verified, entry_receiver, received, pod_exit, loc, mms,
                   processed, entryTxs, config, rolled, ticks, offered, commitLog, start>>
    /\ UNCHANGED ledgerVars
    /\ UNCHANGED <<nodeVars, serviceVars>>

\* entry_receiver.recv(): the downstream stage takes the next entry.
EntryReceive ==
    /\ entry_receiver
    /\ received < Len(chan)
    /\ received' = received + 1
    /\ UNCHANGED podVars
    /\ UNCHANGED procVars
    /\ UNCHANGED <<verified, verified_sender, entry_receiver, pod_exit, loc, mms,
                   processed, entryTxs, config, rolled, ticks, offered, commitLog, start>>
    /\ UNCHANGED ledgerVars
    /\ UNCHANGED <<nodeVars, serviceVars>>

\* drop(entry_receiver).
DropEntryReceiver ==
    /\ entry_receiver
    /\ entry_receiver' = FALSE
    /\ UNCHANGED podVars
    /\ UNCHANGED procVars
    /\ UNCHANGED <<verified, verified_sender, received, pod_exit, loc, mms,
                   processed, entryTxs, config, rolled, ticks, offered, commitLog, start>>
    /\ UNCHANGED ledgerVars
    /\ UNCHANGED <<nodeVars, serviceVars>>

TickProducerStep ==
    \/ TickProducerHash
    \/ TickProducerLock
    \/ (loc["tick_producer"] = "tick" /\ RecorderTick)
    \/ (loc["tick_producer"] = "tick" /\ RecorderRegister("tick_producer"))
    \/ StageSend("tick_producer")
    \/ StageUnlock("tick_producer")
    \/ StageCheck("tick_producer")
    \/ StageExit("tick_producer")

ExecuteStep ==
    \/ ExecuteRecv
    \/ ExecuteReturn
    \/ ExecuteChunk
    \/ ExecuteLock
    \/ ExecuteRecord
    \/ (loc["execute"] = "record" /\ RecorderRegister("execute"))
    \/ StageSend("execute")
    \/ StageUnlock("execute")
    \/ StageCheck("execute")
    \/ StageExit("execute")

NextStage ==
    \/ TickProducerStep
    \/ ExecuteStep
    \/ \E msg \in StageMsgs : SendVerified(msg)
    \/ DropVerifiedSender
    \/ EntryReceive
    \/ DropEntryReceiver

\* TransactionProcessoringStage::new: the processor of the mint, the
\* recorder on its last_id, and the two threads at the head of their loops.
InitOfStage ==
    /\ \E tokens \in 1..MaxMint : InitProcessor(tokens)
    /\ InitHistory
    /\ InitPod
    /\ \E c \in 0..MaxRoll : InitStage(c)
    /\ InitNodes(<<>>)
    /\ InitNoService
    /\ InitNoFullnode

SpecStage == InitOfStage /\ [][NextStage]_vars

\* The steps of the execute thread but for ExecuteChunk.
ExecuteControlStep ==
    \/ ExecuteRecv
    \/ ExecuteReturn
    \/ ExecuteLock
    \/ ExecuteRecord
    \/ (loc["execute"] = "record" /\ RecorderRegister("execute"))
    \/ StageSend("execute")
    \/ StageUnlock("execute")
    \/ StageCheck("execute")
    \/ StageExit("execute")

\* The messages of the fair specification: full batches of transfers with
\* verdict 1.
FairMsgs ==
    {msg \in StageMsgs : /\ Len(msg) = MaxPackets
                         /\ \A i \in 1..Len(msg) : msg[i].ver = 1 /\ msg[i].data \in 1..2}

NextStageFair ==
    \/ TickProducerStep
    \/ ExecuteControlStep
    \/ ExecuteChunk
    \/ \E msg \in FairMsgs : SendVerified(msg)
    \/ DropVerifiedSender
    \/ EntryReceive
    \/ DropEntryReceiver

InitOfStageFair ==
    /\ InitProcessor(MaxMint)
    /\ InitHistory
    /\ InitPod
    /\ \E c \in 0..MaxRoll : InitStage(c)
    /\ InitNodes(<<>>)
    /\ InitNoService
    /\ InitNoFullnode

\* The threads are scheduled fairly: a thread that can take a step
\* eventually takes one.  ExecuteChunk is enabled exactly when the execute
\* thread is at a chunk with transactions left, and each ExecuteChunk step
\* shortens mms: weak fairness of it is that the thread is not there for
\* ever.
SpecStageFair ==
    /\ InitOfStageFair
    /\ [][NextStageFair]_vars
    /\ WF_vars(TickProducerStep)
    /\ WF_vars(ExecuteControlStep)
    /\ []<>~(loc["execute"] = "chunk" /\ mms # <<>>)

\* --------------------------------------------------- replay of a ledger

\* The batches of transactions of a ledger's entries: none (a tick), or the
\* transfers of StageTxs, which name the seed as their last_id.
LedgerBatches == {<<>>, <<StageTxs[1]>>, <<StageTxs[2]>>, <<StageTxs[1], StageTxs[2]>>}

\* The entries that can follow the tip start_hash in a ledger or on the
\* window channel: the entries a leader derives from it, one hash each, and
\* entries whose id was derived with a mixin that is not the hash of their
\* transactions.
LedgerEntries(start_hash) ==
    {[num_hashes |-> 1, id |-> next_hash(start_hash, 1, txs), transactions |-> txs] :
        txs \in LedgerBatches}
    \cup {[num_hashes |-> 1, id |-> hashv(start_hash, NumMixins), transactions |-> txs] :
        txs \in {<<>>, <<StageTxs[1]>>}}

\* Mint::create_entries: the tick that carries the seed, and the entry of
\* the transaction that moves the mint's tokens to the mint's pubkey (its
\* hash is the mixin 1).
Genesis(tokens) ==
    << [num_hashes |-> 0, id |-> Seed, transactions |-> <<>>],
       [num_hashes |-> 1, id |-> hashv(Seed, 1),
        transactions |-> << [keys |-> <<MintKey, MintKey>>, program_id |-> SystemProgramId,
                             last_id |-> Seed, fee |-> 0,
                             userdata |-> <<"Move", tokens>>] >>] >>

\* First entries that are not the genesis of a mint: the genesis without
\* its second entry, with a transaction in its first entry, and with a
\* second entry that holds no transaction, a second transaction, a
\* transaction of the budget program, or an Assign of the System program.
OtherGenesis(tokens) ==
    LET e0 == Genesis(tokens)[1]
        e1 == Genesis(tokens)[2]
        tx == e1.transactions[1]
    IN  { <<e0>>,
          <<[num_hashes |-> 1, id |-> Seed, transactions |-> <<StageTxs[1]>>], e1>>,
          <<e0, [num_hashes |-> 1, id |-> e1.id, transactions |-> <<>>]>>,
          <<e0, [num_hashes |-> 1, id |-> e1.id, transactions |-> <<tx, StageTxs[1]>>]>>,
          <<e0, [num_hashes |-> 1, id |-> e1.id, transactions |-> <<StageTxs[3]>>]>>,
          <<e0, [num_hashes |-> 1, id |-> e1.id,
                 transactions |-> << [keys |-> tx.keys, program_id |-> SystemProgramId,
                                      last_id |-> Seed, fee |-> 0,
                                      userdata |-> <<"Assign", NumPrograms>>] >>]>> }

\* The ledgers that extend the first entries genesis to n entries (to
\* Len(genesis) entries if that is more).
RECURSIVE LedgersOfLength(_, _)
LedgersOfLength(genesis, n) ==
    IF n <= Len(genesis) THEN {genesis}
    ELSE UNION {{Append(l, e) : e \in LedgerEntries(l[Len(l)].id)} :
                   l \in LedgersOfLength(genesis, n - 1)}

\* The ledgers handed to process_ledger: those of up to MaxLedger entries
\* that start with the genesis of a mint, and those of up to three entries
\* that start otherwise.
Ledgers ==
    UNION {LedgersOfLength(Genesis(tokens), n) : tokens \in 1..MaxMint, n \in 2..MaxLedger}
    \cup UNION {LedgersOfLength(genesis, n) : genesis \in OtherGenesis(MaxMint), n \in 2..3}

\* The batches of k entries the window channel can deliver after the tip
\* start_hash.
RECURSIVE WindowBatches(_, _)
WindowBatches(start_hash, k) ==
    IF k = 0 THEN {<<>>}
    ELSE UNION {{<<e>> \o rest : rest \in WindowBatches(e.id, k - 1)} :
                   e \in LedgerEntries(start_hash)}

\* Node n replays the ledger: process_ledger, called once.
ProcessLedger(n) ==
    /\ node_ledger[n].result = "None"
    /\ ledger # <<>>
    /\ \E out \in {process_ledger(node_state[n], ledger)} :
           /\ node_state' = [m \in Nodes |-> IF m = n THEN out.state ELSE node_state[m]]
           /\ node_ledger' = [m \in Nodes |->
                                 IF m = n THEN [result |-> out.result, height |-> out.height,
                                                tail |-> out.tail, applied |-> out.applied]
                                          ELSE node_ledger[m]]
    /\ UNCHANGED <<ledger, further, replayed, votes>>
    /\ UNCHANGED <<procVars, podVars, stageVars>>
    /\ UNCHANGED <<nodeVars, serviceVars>>

\* transfer on node n after its replay: process_transaction of tx.
Transfer(n, tx) ==
    /\ node_ledger[n].result = "Ok"
    /\ Len(further[n]) < MaxFurther
    /\ replayed[n] = <<>>
    /\ \E out \in {process_transactions(node_state[n], <<tx>>)} :
           /\ node_state' = [m \in Nodes |-> IF m = n THEN out.state ELSE node_state[m]]
           /\ further' = [m \in Nodes |->
                             IF m = n THEN Append(further[n], [tx |-> tx, result |-> out.res[1]])
                                      ELSE further[m]]
    /\ UNCHANGED <<ledger, node_ledger, replayed, votes>>
    /\ UNCHANGED <<procVars, podVars, stageVars>>
    /\ UNCHANGED <<nodeVars, serviceVars>>

\* The entries process_entries hands to process_entry, each with the
\* processor's last_id() before it, whether its id was registered, and the
\* results of its transactions.
RECURSIVE ReplayedBy(_, _)
ReplayedRest(st, out, entries) ==
    << [entry |-> entries[1], tip |-> st.last_ids[Len(st.last_ids)],
        registered |-> out.result = "Ok", res |-> out.res] >>
    \o (IF out.result = "Ok" THEN ReplayedBy(out.state, Tail(entries)) ELSE <<>>)
ReplayedBy(st, entries) ==
    IF entries = <<>> THEN <<>>
    ELSE ReplayedRest(st, process_entry(st, entries[1]), entries)

\* last_id() of the processor st.
Processor_last_id(st) == st.last_ids[Len(st.last_ids)]

\* The tip send_validator_vote votes on, st being the processor after
\* process_entries of the entries received.  vote_on_last_received is the
\* id of the last entry received.
vote_on_last_received(st, entries) == entries[Len(entries)].id
send_validator_vote(st, entries) == Processor_last_id(st)

\* replicate_requests on node n, a validator after its replay of the
\* ledger: the k entries received from the window go to process_entries,
\* then, whatever process_entries returned, send_validator_vote sends a vote
\* on a tip if voting is set (there is a vote_blob_sender and new_vote
\* returns Ok).
ReplicateRequests(n, k, voting) ==
    /\ node_ledger[n].result = "Ok"
    /\ further[n] = <<>>
    /\ Len(replayed[n]) + k <= MaxReplay
    /\ \E entries \in WindowBatches(Processor_last_id(node_state[n]), k) :
       \E out \in {process_entries(node_state[n], entries)} :
           /\ node_state' = [m \in Nodes |-> IF m = n THEN out.state ELSE node_state[m]]
           /\ replayed' = [m \in Nodes |->
                              IF m = n THEN replayed[n] \o ReplayedBy(node_state[n], entries)
                                       ELSE replayed[m]]
           /\ votes' = [m \in Nodes |->
                           IF m = n /\ voting
                           THEN Append(votes[n],
                                       [last_id |-> send_validator_vote(out.state, entries),
                                        ring    |-> out.state.last_ids,
                                        handed  |-> Len(replayed[n]) + Len(ReplayedBy(node_state[n], entries))])
                           ELSE votes[m]]
    /\ UNCHANGED <<ledger, node_ledger, further>>
    /\ UNCHANGED <<procVars, podVars, stageVars>>
    /\ UNCHANGED <<nodeVars, serviceVars>>

\* The node that runs a replicate stage after its replay of the ledger.
Validator == 0

NextLedger ==
    \/ \E n \in Nodes : ProcessLedger(n)
    \/ \E n \in Nodes : \E tx \in {StageTxs[1], StageTxs[2]} : Transfer(n, tx)
    \/ \E k \in 1..MaxReplay : \E voting \in BOOLEAN : ReplicateRequests(Validator, k, voting)

InitOfLedger ==
    /\ InitProcessor(MaxMint)
    /\ InitHistory
    /\ InitPod
    /\ InitStage(0)
    /\ \E l \in Ledgers : InitNodes(l)
    /\ InitNoService
    /\ InitNoFullnode

SpecLedger == InitOfLedger /\ [][NextLedger]_vars

\* ------------------------------------------------------------ the fullnode

\* leader_rotation_interval: the scheduled leader can change at the entry
\* heights that are multiples of it.
LeaderRotationInterval == 2
\* The height at which the pipelines of the model stop, and the heights at
\* which the schedule names a leader.
MaxHeight == 6
Boundaries == {h \in 3..MaxHeight : h % LeaderRotationInterval = 0}
\* The blobs the network's leader sends, the entries the leader's stage can
\* leave unwritten, and the calls of handle_role_transition.
MaxFeed == 3
MaxPending == 1
MaxTransitions == 3

\* The threads of the services a Fullnode owns, those of TxCreator and
\* BroadcastStage, and those of TxSigner.
NodeThreads == {"rpu", "ncp", "rpc"}
LeaderThreads == {"fetch", "sigverify", "execute", "write", "broadcast"}
ValidatorThreads == {"blob_fetch", "retransmit", "replicate"}

\* The chain of entries a leader derives from start_hash for the batches.
RECURSIVE EntriesOf(_, _)
EntriesOf(start_hash, batches) ==
    IF batches = <<>> THEN <<>>
    ELSE <<[num_hashes |-> 1, id |-> next_hash(start_hash, 1, batches[1]),
            transactions |-> batches[1]]>>
         \o EntriesOf(next_hash(start_hash, 1, batches[1]), Tail(batches))

\* What the network's leader sends after the genesis: ticks, with or without
\* one entry of a transfer that names the seed as its last_id.
Feeds ==
    {EntriesOf(Genesis(MaxMint)[2].id, batches) :
        batches \in {<<<<>>, <<>>, <<>>>>,
                     <<(<<StageTxs[1]>>), <<>>, <<>>>>,
                     <<<<>>, (<<StageTxs[1]>>), <<>>>>}}

\* The blob of index i carries the entry of height i + 1; the genesis has
\* the indexes 0 and 1.
FeedIndexes == 2..(Len(feed) + 1)
FeedEntry(i) == feed[i - 1]

\* new_transaction_processor_from_ledger: the ledger replayed by
\* process_ledger on TransactionProcessor::default().
new_transaction_processor_from_ledger(entries) == process_ledger(DefaultProcessor, entries)

\* Fullnode::new on the ledger of a mint: the processor and entry_height of
\* the replay, the Rpu, Ncp and JsonRpcService, and the pipeline of the role
\* (a validator if leader_info is given).
Fullnode_new(role, schedule) ==
    LET out == new_transaction_processor_from_ledger(Genesis(MaxMint))
    IN  [node_role |-> role, exit |-> FALSE, rpu_exit |-> FALSE, service_exit |-> FALSE,
         running |-> NodeThreads \cup (IF role = "Leader" THEN LeaderThreads
                                                          ELSE ValidatorThreads),
         entry_height |-> out.height, height |-> out.height, rotation |-> 0,
         transaction_processor |-> out.state, ledger |-> Genesis(MaxMint), window |-> {},
         window_channel |-> <<>>, pending |-> <<>>, schedule |-> schedule,
         joined |-> FALSE, returned |-> "None", arrived |-> <<>>,
         waiting |-> {}]

SetNode(n, f) == [m \in Nodes |-> IF m = n THEN f ELSE fullnode[m]]

\* The blob fetch stage of validator n receives the blob of index i, in any
\* order, and the window buffers it (arrived is the history of the indexes
\* received).
ReceiveBlob(n, i) ==
    /\ "blob_fetch" \in fullnode[n].running
    /\ "retransmit" \in fullnode[n].running
    /\ i \in FeedIndexes
    /\ i \notin fullnode[n].window
    /\ i >= fullnode[n].height
    /\ i < fullnode[n].height + WINDOW_SIZE
    /\ fullnode' = SetNode(n, [fullnode[n] EXCEPT !.window = @ \cup {i},
                                                   !.arrived = Append(@, i)])
    /\ UNCHANGED <<feed, transitions>>
    /\ UNCHANGED <<procVars, podVars, stageVars, ledgerVars, serviceVars>>

\* The window of a validator is at a height at which the schedule makes the
\* node the leader.
ValidatorRotates(f) ==
    /\ f.height \in Boundaries
    /\ f.height > f.entry_height
    /\ f.schedule[f.height] = "self"

\* The window of validator n hands the entry at its height to the replicate
\* stage, unless the node is the leader at that height.
WindowForward(n) ==
    /\ "retransmit" \in fullnode[n].running
    /\ fullnode[n].height \in fullnode[n].window
    /\ ~ValidatorRotates(fullnode[n])
    /\ fullnode' = SetNode(n, [fullnode[n] EXCEPT
                                  !.window = @ \ {fullnode[n].height},
                                  !.window_channel = Append(@, FeedEntry(fullnode[n].height)),
                                  !.height = @ + 1])
    /\ UNCHANGED <<feed, transitions>>
    /\ UNCHANGED <<procVars, podVars, stageVars, ledgerVars, serviceVars>>

\* The retransmit stage of validator n returns LeaderRotation(height).
WindowRotate(n) ==
    /\ "retransmit" \in fullnode[n].running
    /\ ValidatorRotates(fullnode[n])
    /\ fullnode' = SetNode(n, [fullnode[n] EXCEPT
                                  !.rotation = fullnode[n].height,
                                  !.running = @ \ {"retransmit"}])
    /\ UNCHANGED <<feed, transitions>>
    /\ UNCHANGED <<procVars, podVars, stageVars, ledgerVars, serviceVars>>

\* replicate_requests in the pipeline of validator n: the entries queued on
\* the window channel go to process_entries and, whatever it returned, to
\* the ledger.
Replicate(n) ==
    /\ "replicate" \in fullnode[n].running
    /\ fullnode[n].window_channel # <<>>
    /\ \E out \in {process_entries(fullnode[n].transaction_processor,
                                   fullnode[n].window_channel)} :
           fullnode' = SetNode(n, [fullnode[n] EXCEPT
                                      !.transaction_processor = out.state,
                                      !.ledger = @ \o fullnode[n].window_channel,
                                      !.window_channel = <<>>])
    /\ UNCHANGED <<feed, transitions>>
    /\ UNCHANGED <<procVars, podVars, stageVars, ledgerVars, serviceVars>>

\* The processor state st with the id registered.
Registered(st, id) ==
    LET ring == register_entry_id([last_ids |-> st.last_ids,
                                   last_ids_sigs |-> st.last_ids_sigs], id)
    IN  [accounts |-> st.accounts, last_ids |-> ring.last_ids,
         last_ids_sigs |-> ring.last_ids_sigs, transaction_count |-> st.transaction_count]

\* What the stage of a leader leaves and sends for the batch txs, out being
\* what process_transactions returned on the processor whose tip is last_id:
\* a tick for no transaction, otherwise the entry of the transactions that
\* executed with Ok, if any; the recorder registers the id of the entry.
LeaderEntry(last_id, txs, out, ok) ==
    IF txs # <<>> /\ ok = <<>>
    THEN [state |-> out.state, entries |-> <<>>]
    ELSE [state |-> Registered(out.state, next_hash(last_id, 1, ok)),
          entries |-> <<[num_hashes |-> 1, id |-> next_hash(last_id, 1, ok),
                         transactions |-> ok]>>]

\* The stage of leader n executes the batch txs (a tick if empty) and sends
\* the entry towards the write stage.
LeaderCommit(n, txs) ==
    /\ "execute" \in fullnode[n].running
    /\ "write" \in fullnode[n].running
    /\ Len(fullnode[n].pending) < MaxPending
    /\ fullnode[n].height + Len(fullnode[n].pending) < MaxHeight
    /\ \E out \in {IF txs = <<>>
                   THEN [res |-> <<>>, state |-> fullnode[n].transaction_processor]
                   ELSE process_transactions(fullnode[n].transaction_processor, txs)} :
       \E rec \in {LeaderEntry(Processor_last_id(fullnode[n].transaction_processor), txs, out,
                               OkOnly(txs, out.res))} :
           fullnode' = SetNode(n, [fullnode[n] EXCEPT
                                      !.transaction_processor = rec.state,
                                      !.pending = @ \o rec.entries])
    /\ UNCHANGED <<feed, transitions>>
    /\ UNCHANGED <<procVars, podVars, stageVars, ledgerVars, serviceVars>>

\* The write stage of a leader has reached a height at which the schedule
\* names another leader.
LeaderRotates(f, h) ==
    /\ h \in Boundaries
    /\ f.schedule[h] # "self"

\* The write stage of leader n writes the next entry to the ledger; at a
\* height where the node stops being the leader it returns LeaderRotation
\* and leaves the entries behind it unwritten.
LeaderWrite(n) ==
    /\ "write" \in fullnode[n].running
    /\ fullnode[n].pending # <<>>
    /\ fullnode' = SetNode(n, [fullnode[n] EXCEPT
                                  !.ledger = Append(@, Head(fullnode[n].pending)),
                                  !.pending = Tail(@),
                                  !.height = @ + 1,
                                  !.rotation = IF LeaderRotates(fullnode[n], fullnode[n].height + 1)
                                               THEN fullnode[n].height + 1 ELSE 0,
                                  !.running = IF LeaderRotates(fullnode[n], fullnode[n].height + 1)
                                              THEN @ \ {"write"} ELSE @])
    /\ UNCHANGED <<feed, transitions>>
    /\ UNCHANGED <<procVars, podVars, stageVars, ledgerVars, serviceVars>>

\* Thread t of node f can end: the threads that poll a flag once it is set,
\* the others once the sender of their channel is gone and the channel is
\* empty (the stage's threads also once the entry receiver is gone).
CanExit(f, t) ==
    CASE t = "rpu"        -> f.rpu_exit
      [] t \in {"ncp", "rpc"} -> f.exit
      [] t \in {"fetch", "blob_fetch"} -> f.service_exit
      [] t = "sigverify"  -> "fetch" \notin f.running
      [] t = "execute"    -> "sigverify" \notin f.running \/ "write" \notin f.running
      [] t = "write"      -> "execute" \notin f.running /\ f.pending = <<>>
      [] t = "broadcast"  -> "write" \notin f.running
      [] t = "retransmit" -> "blob_fetch" \notin f.running
      [] t = "replicate"  -> "retransmit" \notin f.running /\ f.window_channel = <<>>

\* The threads whose Finalizer stores the exit flag of their pipeline when
\* they end.
Finalizers == {"broadcast", "replicate"}

\* Thread t of node n ends.
ThreadExit(n, t) ==
    /\ t \in fullnode[n].running
    /\ CanExit(fullnode[n], t)
    /\ fullnode' = SetNode(n, [fullnode[n] EXCEPT
                                  !.running = @ \ {t},
                                  !.service_exit = @ \/ t \in Finalizers])
    /\ UNCHANGED <<feed, transitions>>
    /\ UNCHANGED <<procVars, podVars, stageVars, ledgerVars, serviceVars>>

\* LeaderServices::join and ValidatorServices::join return once every
\* thread of the pipeline has ended.  Services_join_last_stage is a join of
\* the stage that returns the LeaderRotation value only.
Services_join_last_stage(f) == f.running \cap {"write", "retransmit"} = {}
Services_join(f) == f.running \cap (LeaderThreads \cup ValidatorThreads) = {}

\* leader_to_validator: the processor is rebuilt from the ledger, the Rpu
\* is closed and replaced, and a TxSigner starts at the height of the
\* replay.  A ledger process_ledger rejects ends the thread (expect).
leader_to_validator(f) ==
    LET out == new_transaction_processor_from_ledger(f.ledger)
    IN  IF out.result # "Ok"
        THEN [f EXCEPT !.node_role = "Panic"]
        ELSE [f EXCEPT !.node_role = "Validator",
                       !.transaction_processor = out.state,
                       !.entry_height = out.height, !.height = out.height,
                       !.rotation = 0, !.pending = <<>>, !.window_channel = <<>>,
                       !.rpu_exit = FALSE, !.service_exit = FALSE,
                       !.running = (@ \cup {"rpu"}) \cup ValidatorThreads]

\* validator_to_leader(entry_height): a TxCreator and a BroadcastStage
\* start at entry_height on the processor the node has.
validator_to_leader(f, entry_height) ==
    [f EXCEPT !.node_role = "Leader",
              !.entry_height = entry_height, !.height = entry_height,
              !.rotation = 0, !.pending = <<>>, !.window_channel = <<>>,
              !.service_exit = FALSE,
              !.running = @ \cup LeaderThreads]

\* handle_role_transition: the role is taken, its services are joined, and
\* the other role is started if they returned LeaderRotation.
handle_role_transition_always(f) ==
    IF f.node_role = "Leader" THEN leader_to_validator(f)
    ELSE IF f.node_role = "Validator" THEN validator_to_leader(f, f.height)
    ELSE f
handle_role_transition(f) ==
    IF f.node_role = "Leader" /\ f.rotation # 0 THEN leader_to_validator(f)
    ELSE IF f.node_role = "Validator" /\ f.rotation # 0
         THEN validator_to_leader(f, f.rotation)
    ELSE [f EXCEPT !.node_role = "None"]

\* What handle_role_transition returns, f being the node before the call and
\* g the node after it.
handle_role_transition_returns(f, g) ==
    IF g.node_role = "Panic" THEN "Panic"
    ELSE IF f.node_role \in {"Leader", "Validator"} /\ f.rotation # 0
         THEN "LeaderRotation" ELSE "None"

\* Node n calls handle_role_transition, which returns once the services of
\* its role have been joined.
HandleRoleTransition(n) ==
    /\ ~fullnode[n].joined
    /\ fullnode[n].node_role \in {"Leader", "Validator", "None"}
    /\ fullnode[n].node_role # "None" => Services_join(fullnode[n])
    /\ Len(transitions[n]) < MaxTransitions
    /\ \E g \in {handle_role_transition(fullnode[n])} :
           /\ fullnode' = SetNode(n, g)
           /\ transitions' =
                  [m \in Nodes |->
                      IF m # n THEN transitions[m]
                      ELSE Append(transitions[n],
                                  [from |-> fullnode[n].node_role,
                                   started |-> fullnode[n].entry_height,
                                   exited |-> fullnode[n].rotation,
                                   returned |-> handle_role_transition_returns(fullnode[n], g),
                                   to |-> g.node_role,
                                   entry_height |-> g.entry_height,
                                   transaction_processor |-> g.transaction_processor,
                                   ledger |-> g.ledger,
                                   running |-> g.running])]
    /\ UNCHANGED feed
    /\ UNCHANGED <<procVars, podVars, stageVars, ledgerVars, serviceVars>>

\* Fullnode::exit: the flags of the node, of its Rpu and of the services of
\* its role are stored.  Fullnode_exit_without_services leaves the flag of
\* the role's services alone.
Fullnode_exit_without_services(f) == [f EXCEPT !.exit = TRUE, !.rpu_exit = TRUE]
Fullnode_exit(f) ==
    [f EXCEPT !.exit = TRUE, !.rpu_exit = TRUE,
              !.service_exit = @ \/ f.node_role # "None"]

\* Node n is told to exit.
Exit(n) ==
    /\ ~fullnode[n].joined
    /\ ~fullnode[n].exit
    /\ fullnode[n].node_role # "Panic"
    /\ fullnode' = SetNode(n, Fullnode_exit(fullnode[n]))
    /\ UNCHANGED <<feed, transitions>>
    /\ UNCHANGED <<procVars, podVars, stageVars, ledgerVars, serviceVars>>

\* Service::join of Fullnode returns: the Rpu, the Ncp, the rpc service and
\* the services of the role have been joined (waiting is the history of the
\* nodes told to exit and not joined yet).
Join(n) ==
    /\ ~fullnode[n].joined
    /\ fullnode[n].node_role # "Panic"
    /\ fullnode[n].running = {}
    /\ fullnode' = SetNode(n, [fullnode[n] EXCEPT
                                  !.joined = TRUE,
                                  !.waiting = {m \in Nodes \ {n} : fullnode[m].exit
                                                                     /\ ~fullnode[m].joined},
                                  !.returned = IF fullnode[n].node_role # "None"
                                                  /\ fullnode[n].rotation # 0
                                               THEN "LeaderRotation" ELSE "None"])
    /\ UNCHANGED <<feed, transitions>>
    /\ UNCHANGED <<procVars, podVars, stageVars, ledgerVars, serviceVars>>

\* The node whose pipelines receive blobs and transactions.
Supervised == 0

NextFullnode ==
    \/ \E i \in 2..(MaxFeed + 1) : ReceiveBlob(Supervised, i)
    \/ WindowForward(Supervised)
    \/ WindowRotate(Supervised)
    \/ Replicate(Supervised)
    \/ \E txs \in {<<>>, <<StageTxs[1]>>} : LeaderCommit(Supervised, txs)
    \/ LeaderWrite(Supervised)
    \/ \E t \in NodeThreads \cup LeaderThreads \cup ValidatorThreads :
           ThreadExit(Supervised, t)
    \/ HandleRoleTransition(Supervised)
    \/ Exit(Supervised)
    \/ Join(Supervised)

\* A schedule names, for each boundary, this node or another one.
Schedules == [Boundaries -> {"self", "other"}]

InitOfFullnode ==
    /\ InitProcessor(MaxMint)
    /\ InitHistory
    /\ InitPod
    /\ InitStage(0)
    /\ InitNodes(<<>>)
    /\ InitNoService
    /\ feed \in Feeds
    /\ \E role \in {"Leader", "Validator"} : \E schedule \in Schedules :
           fullnode = [n \in Nodes |-> IF n = Supervised THEN Fullnode_new(role, schedule)
                                                          ELSE NoFullnode]
    /\ transitions = [n \in Nodes |-> <<>>]

SpecFullnode == InitOfFullnode /\ [][NextFullnode]_vars

\* Two nodes that are told to exit and are joined.  The supervised node
\* receives the blobs below height 4 and, as a leader, sends ticks.
NextFullnodeFair ==
    \/ \E i \in 2..3 : ReceiveBlob(Supervised, i)
    \/ WindowForward(Supervised)
    \/ WindowRotate(Supervised)
    \/ Replicate(Supervised)
    \/ LeaderCommit(Supervised, <<>>)
    \/ LeaderWrite(Supervised)
    \/ \E n \in Nodes : \E t \in NodeThreads \cup LeaderThreads \cup ValidatorThreads :
           ThreadExit(n, t)
    \/ \E n \in Nodes : Exit(n)
    \/ \E n \in Nodes : Join(n)

\* The supervised node starts in either role, and the schedule changes its
\* role at height 4; the other node is a validator, as the nodes of
\* validator_parallel_exit.
InitOfFullnodeFair ==
    /\ InitProcessor(MaxMint)
    /\ InitHistory
    /\ InitPod
    /\ InitStage(0)
    /\ InitNodes(<<>>)
    /\ InitNoService
    /\ feed = EntriesOf(Genesis(MaxMint)[2].id, <<<<>>, <<>>, <<>>>>)
    /\ \E role \in {"Leader", "Validator"} :
           fullnode = [n \in Nodes |->
                          IF n = Supervised
                          THEN Fullnode_new(role, [b \in Boundaries |->
                                                      IF role = "Validator" THEN "self"
                                                                            ELSE "other"])
                          ELSE Fullnode_new("Validator", [b \in Boundaries |-> "other"])]
    /\ transitions = [n \in Nodes |-> <<>>]

\* The threads are scheduled fairly: a thread that can end or take a step
\* eventually does, and a join that can return does.
SpecFullnodeFair ==
    /\ InitOfFullnodeFair
    /\ [][NextFullnodeFair]_vars
    /\ \A n \in Nodes :
           WF_vars(\E t \in NodeThreads \cup LeaderThreads \cup ValidatorThreads :
                      ThreadExit(n, t))
    /\ \A n \in Nodes : WF_vars(Join(n))
    /\ WF_vars(Replicate(Supervised))
    /\ WF_vars(LeaderWrite(Supervised))

\* --------------------------------------------------- property helpers

IsCall == lastOp \in {"process_transactions", "process_entry"}

Range(f) == {f[i] : i \in DOMAIN f}

\* get_balance: the tokens of the account, 0 when there is none.
get_balance(accts, pubkey) ==
    IF pubkey \in DOMAIN accts THEN accts[pubkey].tokens ELSE 0

\* The sum of get_balance over the pubkeys 1..n that are in the set keys.
RECURSIVE SumBalances(_, _, _)
SumBalances(accts, keys, n) ==
    IF n = 0 THEN 0
    ELSE (IF n \in keys THEN get_balance(accts, n) ELSE 0) + SumBalances(accts, keys, n - 1)

\* The transactions of txs submitted one at a time, in input order.
RECURSIVE Serial(_, _)
Serial(st, txs) ==
    IF txs = <<>> THEN [res |-> <<>>, state |-> st]
    ELSE LET one  == process_transactions(st, <<txs[1]>>)
             rest == Serial(one.state, Tail(txs))
         IN  [res |-> one.res \o rest.res, state |-> rest.state]

\* Transaction i of the batch txs, loaded in state st, passes the load checks
\* and its program leaves one of its accounts with negative tokens.
WouldGoNegative(st, txs, i) ==
    LET ld == load_accounts(txs, st.accounts, st.last_ids_sigs).loaded[i]
    IN  /\ ld.result = "Ok"
        /\ LET ran == dispatch(txs[i], ld.called)
           IN  ran.known /\ \E j \in 1..Len(ran.accounts) : ran.accounts[j].tokens < 0

VerifyErrors == {"ModifiedContractId", "ExternalAccountTokenSpend", "ResultWithNegativeTokens"}

\* ----------------------------------------------------------- properties

\* C1 (as amended): every account in the store has tokens >= 0 after any
\* sequence of process_transactions / process_entry calls, and a transaction
\* whose execution would leave an account it references negative is rejected
\* with one of the errors of verify_transaction (ResultWithNegativeTokens
\* unless ModifiedContractId or ExternalAccountTokenSpend is met first) and
\* commits nothing.
C1_NonNegativeBalances ==
    /\ \A k \in DOMAIN accounts : accounts[k].tokens >= 0
    /\ IsCall =>
         \A i \in 1..Len(lastTxs) :
            WouldGoNegative(pre, lastTxs, i) =>
               /\ lastRes[i] \in VerifyErrors
               /\ Len(lastTxs) = 1 =>
                    accounts = pre.accounts /\ transaction_count = pre.transaction_count

\* C1 witness: a transfer that would overdraw was rejected with
\* ResultWithNegativeTokens and the store is as before.
C1_Witness ==
    /\ lastOp = "process_transactions"
    /\ Len(lastTxs) = 1
    /\ WouldGoNegative(pre, lastTxs, 1)
    /\ lastRes[1] = "ResultWithNegativeTokens"
    /\ accounts = pre.accounts

\* C1 as stated: the rejection of a transaction that would leave a negative
\* balance is always ResultWithNegativeTokens.
C1_AsStated ==
    /\ \A k \in DOMAIN accounts : accounts[k].tokens >= 0
    /\ IsCall =>
         \A i \in 1..Len(lastTxs) :
            WouldGoNegative(pre, lastTxs, i) => lastRes[i] = "ResultWithNegativeTokens"

\* C2 as stated: over the accounts named by the committed transactions of a
\* batch, the sum of the balances is the same after the call as before it.
C2_BalanceSumPreserved ==
    IsCall =>
       LET touched == UNION {Range(lastTxs[i].keys) :
                               i \in {j \in 1..Len(lastTxs) : lastRes[j] = "Ok"}}
       IN  SumBalances(accounts, touched, NumKeys) = SumBalances(pre.accounts, touched, NumKeys)

\* C3 as stated: the results and the final account store of a batch equal
\* those of its transactions submitted one at a time in input order.
C3_SerialObservable ==
    IsCall =>
       LET ser == Serial(pre, lastTxs)
       IN  lastRes = ser.res /\ accounts = ser.state.accounts

\* C8: a transaction that returns an error has no effect on the account
\* store and is not counted: the store after a call is the store the Ok
\* transactions alone produce, a call whose results are all errors leaves
\* store and count as they were, and transaction_count is the number of Ok
\* results returned since construction.
C8_ErrorsHaveNoEffect ==
    /\ transaction_count = okTotal
    /\ IsCall =>
         /\ transaction_count =
               pre.transaction_count + Cardinality({i \in 1..Len(lastRes) : lastRes[i] = "Ok"})
         /\ accounts = process_transactions(pre, OkOnly(lastTxs, lastRes)).state.accounts
         /\ (\A i \in 1..Len(lastRes) : lastRes[i] # "Ok") =>
               accounts = pre.accounts /\ transaction_count = pre.transaction_count

\* C8 witness: a batch with one committed and one failed transaction.
C8_Witness ==
    /\ lastOp = "process_transactions"
    /\ Len(lastTxs) = 2
    /\ lastRes[1] = "Ok"
    /\ lastRes[2] \notin {"Ok", "DuplicateSignature"}
    /\ transaction_count = 1
    /\ accounts # pre.accounts

\* C4: without clear_signatures, reserve(sig, tip) returns Ok at most once for
\* each (sig, tip) pair, in any sequence of register_entry_id, reserve and
\* process_transactions operations.
C4_ReserveOkAtMostOnce ==
    \A p \in DOMAIN okReserves : okReserves[p] <= 1

\* A tip is usable when a reserve against it does not answer LastIdNotFound.
Usable(h) ==
    reserve_signature_with_last_id(last_ids_sigs, DefaultSignature, h).result
        # "LastIdNotFound"

\* C5: a registered tip stays usable for exactly the next MAX_ENTRY_IDS - 1
\* registrations; once MAX_ENTRY_IDS further tips have been registered after
\* it, reserve against it returns LastIdNotFound and a transaction naming it
\* is rejected with LastIdNotFound without changing any account.
C5_TipWindow ==
    /\ \A h \in DOMAIN age : Usable(h) <=> age[h] <= MAX_ENTRY_IDS - 1
    /\ lastOp = "process_transactions" =>
         \A i \in 1..Len(lastTxs) :
            (lastTxs[i].last_id \in DOMAIN age /\ age[lastTxs[i].last_id] >= MAX_ENTRY_IDS) =>
               /\ lastRes[i] = "LastIdNotFound"
               /\ Len(lastTxs) = 1 => accounts = pre.accounts

\* C6: after any sequence of register_entry_id calls, tips possibly
\* repeated, the ring holds at most MAX_ENTRY_IDS tips and the set of tips in
\* last_ids equals the set of tips that have a bucket in last_ids_sigs.
C6_RingConsistent ==
    /\ Len(last_ids) <= MAX_ENTRY_IDS
    /\ Range(last_ids) = DOMAIN last_ids_sigs

\* Transaction i of the last call failed, its last_id has a bucket in the
\* ring, and no later transaction of the call carries the same signature.
FailedInRing(i) ==
    /\ lastRes[i] # "Ok"
    /\ lastTxs[i].last_id \in DOMAIN last_ids_sigs
    /\ \A j \in (i + 1)..Len(lastTxs) : Sign(lastTxs[j]) # Sign(lastTxs[i])

\* C7: when a transaction fails in the executor and its last_id is in the
\* ring, has_signature(sig) is true afterwards and get_signature_status(sig)
\* returns exactly the error that was returned, and (for a call of one
\* transaction) the balances of the accounts it references are unchanged.
C7_FailureRecorded ==
    lastOp = "process_transactions" =>
        \A i \in 1..Len(lastTxs) :
           FailedInRing(i) =>
              /\ has_signature(last_ids_sigs, Sign(lastTxs[i]))
              /\ signature_statuses(last_ids_sigs, Sign(lastTxs[i])) = {lastRes[i]}
              /\ Len(lastTxs) = 1 =>
                   \A k \in Range(lastTxs[1].keys) :
                      get_balance(accounts, k) = get_balance(pre.accounts, k)

\* A transaction that passed the load checks and reserved its signature
\* failed in execution, after the ring has moved on by one registration.
C7_Witness ==
    /\ lastOp = "process_transactions"
    /\ Len(lastTxs) = 1
    /\ registered >= 1
    /\ FailedInRing(1)
    /\ lastRes[1] = "ResultWithNegativeTokens"
    /\ signature_statuses(last_ids_sigs, Sign(lastTxs[1])) = {"ResultWithNegativeTokens"}


\* The tip the recorder started from: the processor's last_id() at
\* PodRecorder::new.
InitialTip == MintLastId

\* C9: for any interleaving of hash(), tick() and record(mixin) calls on one
\* PodRecorder, the entries delivered on the entry channel form a valid chain
\* from the recorder's initial tip: every entry has num_hashes >= 1 and its id
\* is re-derived by hashing the previous tip num_hashes - 1 times and then
\* hashing once more (Tick) or hashing together with the mixin (Work).
C9_ValidChain ==
    /\ \A i \in 1..Len(chan) : chan[i].num_hashes >= 1
    /\ verify(InitialTip, chan)

\* A Tick and a Work entry have been delivered, one of them after a hash()
\* call, so that it has num_hashes >= 2.
C9_Witness ==
    /\ \E i \in 1..Len(chan) : chan[i].mixin = NoMixin
    /\ \E i \in 1..Len(chan) : chan[i].mixin # NoMixin /\ chan[i].num_hashes >= 2
    /\ Len(chan) >= 3

\* C10: with the tick producer calling PodRecorder::tick and the execute
\* thread calling PodRecorder::record concurrently, the entries appear on the
\* channel in the order in which their ids were registered in the LastIdRing,
\* and an entry's id is registered before the entry is receivable (it is the
\* ring's tip at the moment the entry is sent).
C10_ChannelOrder ==
    /\ Len(chan) <= Len(regOrder)
    /\ Len(regOrder) <= Len(chan) + 1
    /\ \A i \in 1..Len(chan) : chan[i].id = regOrder[i]
    /\ \A t \in Threads :
          pc[t] \in {"send", "unlock"} =>
             /\ tick[t].id = last_ids[Len(last_ids)]
             /\ tick[t].id \in DOMAIN last_ids_sigs

\* The execute thread has just sent a Work entry that follows a Tick entry
\* of the tick producer, while the tick producer waits for the mutex.
C10_Witness ==
    /\ pc["execute"] = "unlock"
    /\ pc["tick_producer"] = "idle"
    /\ Len(chan) >= 2
    /\ chan[Len(chan)].mixin # NoMixin
    /\ chan[Len(chan) - 1].mixin = NoMixin
    /\ chan[Len(chan)].id = last_ids[Len(last_ids)]

\* Both threads of the stage have ended (join() returns).
Stopped == \A t \in Threads : loc[t] = "done"

\* The entry receiver is connected and has taken every entry sent.
Drained == entry_receiver /\ received = Len(chan)

\* TransactionProcessor::last_id(): the tip registered last.
TransactionProcessor_last_id == last_ids[Len(last_ids)]

\* C11: once the stage has stopped and the entry receiver has drained the
\* channel, at least one entry has been received, the id of the last entry
\* received is last_id(), and the ids the recorder registered are the ids of
\* the entries received, in order.
C11_LastEntryIsTip ==
    (Stopped /\ Drained) =>
        /\ received >= 1
        /\ chan[received].id = TransactionProcessor_last_id
        /\ regOrder = [i \in 1..Len(chan) |-> chan[i].id]

\* The stage stopped after its sender was dropped, and the receiver has taken
\* Tick entries and a Work entry.
C11_Witness ==
    /\ Stopped
    /\ Drained
    /\ ~verified_sender
    /\ received >= 3
    /\ \E i \in 1..Len(chan) : entryTxs[i] # <<>>

\* The transactions of the entries in order, as one sequence.
RECURSIVE Flatten(_)
Flatten(seqs) == IF seqs = <<>> THEN <<>> ELSE seqs[1] \o Flatten(Tail(seqs))

IsPrefix(a, b) == Len(a) <= Len(b) /\ a = SubSeq(b, 1, Len(a))

\* C12: the executor's commit of all transactions of a Work entry is complete
\* before the entry is sent: from pod.record on, the entry's transactions are
\* those the executor returned Ok for and the store and the count are as the
\* commit of their chunk left them; the transactions of the entries sent are,
\* in order, a prefix of the transactions committed, all of them counted; and
\* the entries are totally ordered by emission, each chaining from the entry
\* sent before it.
C12_CommitBeforeSend ==
    /\ pc["execute"] # "idle" =>
          /\ lastOp = "process_transactions"
          /\ processed = OkOnly(lastTxs, lastRes)
          /\ accounts = process_transactions(pre, lastTxs).state.accounts
          /\ transaction_count = pre.transaction_count + Len(processed)
          /\ IsPrefix(Flatten(entryTxs) \o (IF pc["execute"] = "unlock" THEN <<>> ELSE processed),
                      commitLog)
    /\ IsPrefix(Flatten(entryTxs), commitLog)
    /\ Len(Flatten(entryTxs)) <= transaction_count
    /\ \A i \in 1..(Len(chan) - 1) : verify(chan[i].id, <<chan[i + 1]>>)
    /\ \A i, j \in 1..Len(chan) : i < j => chan[i].id < chan[j].id

\* The execute thread has just sent a Work entry of two transactions, after
\* a Tick entry.
C12_Witness ==
    /\ pc["execute"] = "unlock"
    /\ loc["execute"] = "record"
    /\ Len(chan) >= 2
    /\ Len(entryTxs[Len(chan)]) = 2
    /\ entryTxs[Len(chan)] = processed
    /\ transaction_count = 2

\* How often x occurs in the sequence seq.
Count(seq, x) == Cardinality({i \in DOMAIN seq : seq[i] = x})

\* The packets sent to the stage that hold the transaction tx, carry a
\* verdict other than 0 and pass verify_plan.
AdmissiblePackets(tx) ==
    LET packets == Flatten(offered)
    IN  {i \in DOMAIN packets :
            /\ packets[i].data \in 1..Len(StageTxs)
            /\ StageTxs[packets[i].data] = tx
            /\ packets[i].ver # 0
            /\ verify_plan(tx)}

\* C13: every transaction in an entry emitted by the stage came in a packet
\* that deserialized, had a verdict other than 0 and passed verify_plan, and
\* the executor returned Ok for it: a transaction is in the entries at most
\* as often as it came in such a packet and at most as often as the executor
\* returned Ok for it.
C13_OnlyVerifiedAndExecuted ==
    LET emitted == Flatten(entryTxs)
    IN  /\ \A i \in 1..Len(emitted) : emitted[i] \in Range(StageTxs)
        /\ \A i \in 1..Len(StageTxs) :
              /\ Count(emitted, StageTxs[i]) <= Cardinality(AdmissiblePackets(StageTxs[i]))
              /\ Count(emitted, StageTxs[i]) <= Count(commitLog, StageTxs[i])

\* The first transaction came twice in one message, with verdict 0 and with
\* verdict 1, and is in the entries once; the execute thread has ended.
C13_Witness ==
    /\ offered = << <<[data |-> 1, ver |-> 0], [data |-> 1, ver |-> 1]>> >>
    /\ Flatten(entryTxs) = <<StageTxs[1]>>
    /\ loc["execute"] = "done"

\* The Tick entries sent on the entry channel so far.
TicksSent == Cardinality({i \in 1..Len(chan) : chan[i].mixin = NoMixin})

\* Nothing has been sent to the stage and both its channels are connected.
ZeroLoad == offered = <<>> /\ verified_sender /\ entry_receiver

\* C14: under zero transaction load, while the stage runs and the entry
\* receiver is connected, the tick producer keeps emitting entries under fair
\* scheduling: whatever the number of Tick entries sent so far (below the
\* bound MaxTicks of the model), one more is eventually sent, unless load
\* arrives or a channel is disconnected first.
C14_TicksKeepComing ==
    \A n \in 0..(MaxTicks - 1) :
        (ZeroLoad /\ TicksSent = n) ~> (TicksSent > n \/ ~ZeroLoad)

\* MaxTicks Tick entries have been sent and received under zero load.
C14_Witness ==
    /\ ZeroLoad
    /\ TicksSent = MaxTicks
    /\ received = MaxTicks
    /\ \A t \in Threads : loc[t] \notin {"exit", "done"}

\* C15: once the verified-packets sender is dropped, or once the entry
\* receiver is dropped, both threads of the stage eventually end, so that
\* join() returns.
C15_StageTerminates ==
    (~verified_sender \/ ~entry_receiver) ~> Stopped

\* The stage has stopped after the entry receiver was dropped, the sender of
\* verified packets still connected.
C15_Witness ==
    /\ Stopped
    /\ ~entry_receiver
    /\ verified_sender

\* The entries sent on the channel, as Entry values.
EntriesSent ==
    [i \in 1..Len(chan) |-> [num_hashes |-> chan[i].num_hashes, id |-> chan[i].id,
                             transactions |-> entryTxs[i]]]

\* C16 as stated: once the stage has stopped and its entries have been
\* received, process_entries of the emitted entries, in order, on a processor
\* in the leader's starting state succeeds for every transaction of every
\* entry and ends with the leader's balances.
C16_ReplayMatchesLeader ==
    (Stopped /\ Drained) =>
        \E replay \in {process_entries(start, EntriesSent)} :
            /\ replay.result = "Ok"
            /\ \A k \in Keys : get_balance(replay.state.accounts, k) = get_balance(accounts, k)

\* The orders in which a HashMap with the pubkeys keys can yield them.
Orders(keys) ==
    {order \in [1..Cardinality(keys) -> keys] :
        \A i, j \in 1..Cardinality(keys) : order[i] = order[j] => i = j}

\* Node n has replayed the ledger and its replicate stage has applied nothing.
Replayed(n) == node_ledger[n].result # "None" /\ replayed[n] = <<>>

\* C17: two nodes that ran process_ledger on the same entries, and then the
\* same further transfers, hold the same account maps, and their
\* hash_internal_state() is the same whatever the order in which their
\* HashMaps yield the accounts.
C17_ReplayDeterministic ==
    \A a, b \in Nodes :
        (Replayed(a) /\ Replayed(b) /\ further[a] = further[b]) =>
            /\ node_state[a].accounts = node_state[b].accounts
            /\ \A oa \in Orders(DOMAIN node_state[a].accounts) :
               \A ob \in Orders(DOMAIN node_state[b].accounts) :
                   hash_internal_state(node_state[a].accounts, oa)
                       = hash_internal_state(node_state[b].accounts, ob)

\* Both nodes have replayed a ledger and made the same transfer, which
\* succeeded and left two accounts.
C17_Witness ==
    /\ Replayed(0) /\ Replayed(1)
    /\ node_ledger[0].result = "Ok"
    /\ further[0] # <<>> /\ further[0] = further[1]
    /\ further[0][1].result = "Ok"
    /\ Cardinality(DOMAIN node_state[0].accounts) >= 2

\* A well-formed genesis pair: a tick, then an entry whose only transaction
\* is a Move of the System program.
WellFormedGenesis(l) ==
    /\ Len(l) >= 2
    /\ l[1].transactions = <<>>
    /\ Len(l[2].transactions) = 1
    /\ l[2].transactions[1].program_id = SystemProgramId
    /\ l[2].transactions[1].userdata[1] = "Move"

\* The entries of a ledger after its genesis.
AfterGenesis(l) == SubSeq(l, 3, Len(l))

\* A valid ledger: after the genesis every entry's id derives from the id of
\* the entry before it, and every transaction applies in ledger order.
ValidLedger(l) ==
    /\ WellFormedGenesis(l)
    /\ Block_verify(AfterGenesis(l), l[2].id)
    /\ process_entries(process_ledger_genesis(DefaultProcessor, l[1], l[2]),
                       AfterGenesis(l)).result = "Ok"

\* C18: for a valid ledger process_ledger returns the number of entries of
\* the ledger as height and the last min(n, WINDOW_SIZE) entries, in ledger
\* order, as tail, and afterwards last_id() is the id of the last entry.
C18_HeightAndTail ==
    \A n \in Nodes :
        (Replayed(n) /\ ValidLedger(ledger)) =>
            /\ node_ledger[n].result = "Ok"
            /\ node_ledger[n].height = Len(ledger)
            /\ node_ledger[n].tail
                   = SubSeq(ledger, Len(ledger) - Min(Len(ledger), WINDOW_SIZE) + 1, Len(ledger))
            /\ node_state[n].last_ids[Len(node_state[n].last_ids)] = ledger[Len(ledger)].id

\* A node has replayed a valid ledger that is longer than the window and
\* holds a transaction.
C18_Witness ==
    /\ Replayed(0)
    /\ ValidLedger(ledger)
    /\ Len(ledger) > WINDOW_SIZE + 1
    /\ \E i \in 3..Len(ledger) : ledger[i].transactions # <<>>

\* The positions of the ledger whose entry does not derive from the entry
\* before it, the genesis aside.
Mismatches(l) == {i \in 3..Len(l) : ~Entry_verify(l[i], l[i - 1].id)}

FirstMismatch(l) == CHOOSE i \in Mismatches(l) : \A j \in Mismatches(l) : i <= j

\* The first position of the block of VERIFY_BLOCK_SIZE entries that
\* position i of the ledger is in.
BlockStart(i) == 3 + VERIFY_BLOCK_SIZE * ((i - 3) \div VERIFY_BLOCK_SIZE)

\* No entry at or after position m was handed to process_entry by node n's
\* process_ledger, and none of their ids is in its ring.
NothingFrom(n, m) ==
    \A i \in m..Len(ledger) :
        /\ \A j \in 1..Len(node_ledger[n].applied) : node_ledger[n].applied[j] # ledger[i]
        /\ \A j \in 1..Len(node_state[n].last_ids) : node_state[n].last_ids[j] # ledger[i].id

\* C19 as stated: on a ledger with an entry that does not chain,
\* process_ledger returns LedgerVerificationFailed, and no entry at or after
\* the first such entry is applied or registered.
C19_AsStated ==
    \A n \in Nodes :
        (Replayed(n) /\ WellFormedGenesis(ledger) /\ Mismatches(ledger) # {}) =>
            /\ node_ledger[n].result = "LedgerVerificationFailed"
            /\ NothingFrom(n, FirstMismatch(ledger))

\* C19: on a ledger with an entry that does not chain, process_ledger fails,
\* with LedgerVerificationFailed exactly when the entries of the blocks
\* before the block of the first such entry all apply (otherwise with the
\* error of the transaction that does not), and no entry at or after the
\* first entry that does not chain is applied or registered.
C19_RejectsBrokenChain ==
    \A n \in Nodes :
        (Replayed(n) /\ WellFormedGenesis(ledger) /\ Mismatches(ledger) # {}) =>
            /\ node_ledger[n].result # "Ok"
            /\ node_ledger[n].result = "LedgerVerificationFailed"
                   <=> process_entries(
                           process_ledger_genesis(DefaultProcessor, ledger[1], ledger[2]),
                           SubSeq(ledger, 3, BlockStart(FirstMismatch(ledger)) - 1)).result = "Ok"
            /\ NothingFrom(n, FirstMismatch(ledger))

\* A node has replayed a ledger whose first block applied, with a
\* transaction, and whose second block holds the entry that does not chain.
C19_Witness ==
    /\ Replayed(0)
    /\ Mismatches(ledger) # {}
    /\ FirstMismatch(ledger) >= 3 + VERIFY_BLOCK_SIZE
    /\ node_ledger[0].result = "LedgerVerificationFailed"
    /\ Len(node_ledger[0].applied) = VERIFY_BLOCK_SIZE
    /\ node_state[0].transaction_count > 0

\* C20 as stated: every entry a validator's replicate stage handed to
\* process_entry derives from the tip the processor held before it.
C20_ReplayVerifiesChain ==
    \A n \in Nodes : \A i \in 1..Len(replayed[n]) :
        Entry_verify(replayed[n][i].entry, replayed[n][i].tip)


\* The ids of the entries node n's replicate stage handed to process_entry.
ReplayedIds(n) == [i \in 1..Len(replayed[n]) |-> replayed[n][i].entry.id]

AppliedBefore(n, v) ==
    [i \in 1..Len(node_ledger[n].applied) |->
        [entry |-> node_ledger[n].applied[i], registered |-> TRUE,
         res |-> [j \in 1..Len(node_ledger[n].applied[i].transactions) |-> "Ok"]]]
    \o [i \in 1..v.handed |->
        [entry |-> replayed[n][i].entry, registered |-> replayed[n][i].registered,
         res |-> replayed[n][i].res]]

C23_RejectsOtherGenesis ==
    \A n \in Nodes :
        (node_ledger[n].result # "None" /\ ~WellFormedGenesis(ledger)) =>
            /\ node_ledger[n].result # "Ok"
            /\ node_state[n].accounts = EmptyMap

\* The pipeline threads running on node n after its i-th call of
\* handle_role_transition.
PipelineAfter(n, i) == transitions[n][i].running \cap (LeaderThreads \cup ValidatorThreads)

\* The other role.
Swapped(role) == IF role = "Leader" THEN "Validator" ELSE "Leader"

C25_RebuiltFromLedger ==
    \A n \in Nodes : \A i \in DOMAIN transitions[n] :
        \E t \in {transitions[n][i]} :
            t.returned = "LeaderRotation" =>
                \E out \in {new_transaction_processor_from_ledger(t.ledger)} :
                    /\ out.result = "Ok"
                    /\ out.height = t.entry_height
                    /\ out.state = t.transaction_processor

\* C26: whenever the pipeline of a validator has exited with
\* LeaderRotation(H) and handle_role_transition has joined it, H is the
\* first height after the pipeline's start at which the schedule makes the
\* node the leader, the node's ledger holds exactly H entries, those after
\* the pipeline's start being the entries of the blobs below H in the order
\* of their indexes, and no entry of a blob at or beyond H is registered in
\* the processor, whatever the order in which the blobs arrived.
C26_LedgerStopsAtRotation ==
    \A n \in Nodes : \A i \in DOMAIN transitions[n] :
        \E t \in {transitions[n][i]} :
            (t.from = "Validator" /\ t.exited # 0) =>
                /\ t.exited \in Boundaries
                /\ fullnode[n].schedule[t.exited] = "self"
                /\ \A b \in Boundaries :
                       (b > t.started /\ fullnode[n].schedule[b] = "self") => b >= t.exited
                /\ Len(t.ledger) = t.exited
                /\ \A h \in (t.started + 1)..t.exited : t.ledger[h] = FeedEntry(h - 1)
                /\ \A j \in FeedIndexes :
                       j >= t.exited =>
                           \A k \in DOMAIN t.transaction_processor.last_ids :
                               t.transaction_processor.last_ids[k] # FeedEntry(j).id

\* The blobs arrived in reverse, the one beyond the rotation height first,
\* and the validator exited with LeaderRotation(4) on a ledger of 4 entries.
C26_Witness ==
    /\ fullnode[Supervised].arrived = <<4, 3, 2>>
    /\ Len(transitions[Supervised]) = 1
    /\ transitions[Supervised][1].from = "Validator"
    /\ transitions[Supervised][1].exited = 4
    /\ Len(transitions[Supervised][1].ledger) = 4

\* C27: once Fullnode::exit() has been called on a node, in either role,
\* every thread of its services and of its pipeline eventually ends and
\* join() returns, also when exit() was called on several nodes before any
\* of them was joined.
C27_JoinReturnsAfterExit ==
    \A n \in Nodes : fullnode[n].exit ~> (fullnode[n].joined /\ fullnode[n].running = {})

\* Both nodes were told to exit before the first of them was joined, the
\* supervised one as a leader, and both joins have returned.
C27_Witness ==
    /\ \A n \in Nodes : fullnode[n].exit /\ fullnode[n].joined
    /\ fullnode[Supervised].node_role = "Leader"
    /\ fullnode[1].node_role = "Validator"
    /\ \E n \in Nodes : fullnode[n].waiting # {}

\* The capacity a bounded channel between two stages would have.
ChannelCapacity == 1

\* C28: the channels between the stages of the leader pipeline are bounded:
\* neither the verified-packets channel nor the entry channel ever holds
\* more messages than its capacity, a sender blocking instead while the
\* receiving stage does not consume.
C28_ChannelsBounded ==
    /\ Len(verified) <= ChannelCapacity
    /\ Len(chan) - received <= ChannelCapacity

\* C29: no transaction with a negative fee is admitted by the execute stage
\* (handed to process_transactions) or committed by the executor (result
\* Ok), whatever its program; a NewContract that verify_plan admits has
\* fee <= tokens and a plan that pays tokens - fee; verify_plan holds of
\* every transaction that is not a NewContract.
C29_NoNegativeFee ==
    /\ IsCall =>
           \A i \in DOMAIN lastTxs :
               lastTxs[i].fee < 0 =>
                   /\ lastOp # "process_transactions"
                   /\ lastRes[i] # "Ok"
    /\ \A tx \in FeeTxs :
           IF tx.userdata[1] = "NewContract"
           THEN verify_plan(tx) => /\ tx.fee <= tx.userdata[2]
                                   /\ tx.userdata[3] = tx.userdata[2] - tx.fee
           ELSE verify_plan(tx)

\* The owner of the account under key k in accts; an account that is not in
\* the map is loaded as Account::default().
OwnerIn(accts, k) ==
    IF k \in DOMAIN accts THEN accts[k].program_id ELSE DefaultAccount.program_id

\* The program of tx, run on the accounts loaded for it from accts, leaves
\* some account with another owner although tx is not of the System program
\* or the account was not owned by it; st is the processor before the call.
ChangesOwnerUnauthorized(tx, st) ==
    \E ld \in {load_account(tx, st.accounts, st.last_ids_sigs)} :
        /\ ld.result = "Ok"
        /\ \E ran \in {dispatch(tx, ld.called)} :
               /\ ran.known
               /\ \E j \in 1..Len(ld.called) :
                      /\ ld.called[j].program_id # ran.accounts[j].program_id
                      /\ ~(tx.program_id = SystemProgramId
                             /\ ld.called[j].program_id = SystemProgramId)

C31_NoExternalSpend ==
    (IsCall /\ Len(lastTxs) = 1 /\ lastRes[1] = "Ok") =>
        \A j \in DOMAIN lastTxs[1].keys :
            OwnerIn(pre.accounts, lastTxs[1].keys[j]) # lastTxs[1].program_id =>
                get_balance(accounts, lastTxs[1].keys[j])
                    >= get_balance(pre.accounts, lastTxs[1].keys[j])

\* C32: after a call of process_transactions, every account that a committed
\* transaction of the call names is either absent from the store, and then
\* get_balance of it is 0, or present with tokens other than 0.
C32_ZeroBalanceRemoved ==
    lastOp = "process_transactions" =>
        \A i \in DOMAIN lastTxs :
            lastRes[i] = "Ok" =>
                \A j \in DOMAIN lastTxs[i].keys :
                    \E k \in {lastTxs[i].keys[j]} :
                        /\ k \in DOMAIN accounts => accounts[k].tokens # 0
                        /\ k \notin DOMAIN accounts => get_balance(accounts, k) = 0

\* A committed transaction took the last token of an account that was in the
\* store before the call, and the account is gone.
C32_Witness ==
    /\ lastOp = "process_transactions"
    /\ \E i \in DOMAIN lastTxs :
           /\ lastRes[i] = "Ok"
           /\ \E j \in DOMAIN lastTxs[i].keys :
                  /\ lastTxs[i].keys[j] \in DOMAIN pre.accounts
                  /\ pre.accounts[lastTxs[i].keys[j]].tokens > 0
                  /\ lastTxs[i].keys[j] \notin DOMAIN accounts
                  /\ get_balance(accounts, lastTxs[i].keys[j]) = 0

\* The candidates, by index, that were registered when the last call of
\* get_last_id_to_vote_on was made.
RegisteredCandidates == {i \in DOMAIN leader_vote.ids : leader_vote.ids[i] \in DOMAIN leader_vote.seen}

\* C33: a call of get_last_id_to_vote_on over n candidates returns Ok
\* exactly when more than floor(2n/3) of them are registered; it then
\* returns, with its timestamp, the candidate that has exactly floor(2n/3)
\* registered candidates before it in the order of the timestamps (and of
\* the candidates, for equal timestamps), and sets last_vote to now;
\* otherwise it returns NoValidLastIdsToVoteOn and leaves last_vote alone.
C33_SuperMajorityOfRegistered ==
    leader_vote.result # "None" =>
        \E k \in {(2 * Len(leader_vote.ids)) \div 3} :
            /\ leader_vote.result = "Ok" <=> Cardinality(RegisteredCandidates) > k
            /\ leader_vote.result = "Ok" =>
                   /\ leader_vote.last_vote = leader_vote.now
                   /\ \E j \in RegisteredCandidates :
                          /\ leader_vote.ids[j] = leader_vote.last_id
                          /\ leader_vote.seen[leader_vote.ids[j]] = leader_vote.timestamp
                          /\ Cardinality({i \in RegisteredCandidates :
                                 \/ leader_vote.seen[leader_vote.ids[i]] < leader_vote.timestamp
                                 \/ /\ leader_vote.seen[leader_vote.ids[i]] = leader_vote.timestamp
                                    /\ i < j}) = k
            /\ leader_vote.result # "Ok" =>
                   /\ leader_vote.result = "NoValidLastIdsToVoteOn"
                   /\ leader_vote.last_vote = leader_vote.pre_last_vote

\* A call over three candidates, all registered, the last of them first: it
\* returns the candidate with the latest timestamp, which is not the last
\* candidate.
C33_Witness ==
    /\ leader_vote.result = "Ok"
    /\ Len(leader_vote.ids) = 3
    /\ Cardinality(RegisteredCandidates) = 3
    /\ leader_vote.last_id # leader_vote.ids[3]
    /\ leader_vote.seen[leader_vote.ids[3]] < leader_vote.timestamp
    /\ leader_vote.last_vote = leader_vote.now

\* The number of times point p was handed to the writer.
TimesWritten(p) == Cardinality({i \in DOMAIN metrics.written : metrics.written[i] = p})

\* C34: when flush has returned, every point submitted before the flush has
\* been handed to the writer exactly once; no point is ever written twice
\* and only submitted points are written; when the agent has been dropped
\* and its thread has left, the points written are the points submitted.
C34_FlushWritesAll ==
    metrics.phase # "none" =>
        /\ metrics.flush = "returned" => \A p \in metrics.before : TimesWritten(p) = 1
        /\ \A p \in Submitted(metrics) : TimesWritten(p) <= 1
        /\ \A i \in DOMAIN metrics.written : metrics.written[i] \in Submitted(metrics)
        /\ metrics.phase = "exited" =>
               Len(metrics.written) = Cardinality(Submitted(metrics))

\* Two threads have submitted two points each, and a flush has returned
\* after which all four are written, the timer never having been due.
C34_Witness ==
    /\ metrics.phase = "running"
    /\ metrics.flush = "returned"
    /\ Cardinality(metrics.before) = NumSubmitters * MaxPoints
    /\ \A p \in metrics.before : TimesWritten(p) = 1
    /\ metrics.writes = 1

\* The second transaction of the last batch is paid by an account that was
\* not in the store before the batch and that the first transaction, which
\* was committed, credits.
PaidFromCreditOfBatch ==
    /\ lastOp = "process_transactions"
    /\ Len(lastTxs) = 2
    /\ lastRes[1] = "Ok"
    /\ lastTxs[2].keys[1] \notin DOMAIN pre.accounts
    /\ get_balance(process_transactions(pre, <<lastTxs[1]>>).state.accounts,
                   lastTxs[2].keys[1]) > 0

\* The results of the two transactions of the last batch had they been
\* submitted in two consecutive batches.
InTwoBatches ==
    \E one \in {process_transactions(pre, <<lastTxs[1]>>)} :
    \E two \in {process_transactions(one.state, <<lastTxs[2]>>)} :
        /\ one.res[1] = "Ok"
        /\ two.res[1] # "AccountNotFound"
        /\ (/\ lastTxs[2].program_id = SystemProgramId
            /\ lastTxs[2].userdata[1] = "Move"
            /\ lastTxs[2].userdata[2] \in 1..(get_balance(one.state.accounts,
                                                          lastTxs[2].keys[1])
                                              - lastTxs[2].fee)
            /\ lastTxs[2].keys[2] # lastTxs[2].keys[1]) => two.res[1] = "Ok"

C36_VotesOneSecondApart ==
    vote_loop.phase = "running" =>
        \A i \in 1..(Len(vote_loop.sent) - 1) :
            vote_loop.sent[i + 1] - vote_loop.sent[i] >= TicksPerSecond

\* C37: a transaction that process_transactions committed has the status Ok
\* after the next call of process_transactions as well, whatever
\* transactions that call processes (the ring is as it was: no tip is
\* registered and no signature cleared in between).
C37_CommittedStatusStays ==
    [][(lastOp = "process_transactions" /\ lastOp' = "process_transactions") =>
           \A i \in DOMAIN lastTxs :
               lastRes[i] = "Ok" =>
                   signature_statuses(last_ids_sigs', Sign(lastTxs[i])) = {"Ok"}]_vars

\* The processor st after the causes of a Load or Reserve rejection of tx are
\* removed: the fee payer holds the fee and the token tx moves, and tx's
\* last_id is registered if it was not in the ring.
CauseRemoved(st, tx) ==
    \E ring \in {IF tx.last_id \in DOMAIN st.last_ids_sigs
                 THEN [last_ids |-> st.last_ids, last_ids_sigs |-> st.last_ids_sigs]
                 ELSE register_entry_id([last_ids |-> st.last_ids,
                                         last_ids_sigs |-> st.last_ids_sigs],
                                        tx.last_id)} :
        process_transactions(
            [accounts |-> Put(st.accounts, tx.keys[1],
                              [tokens |-> tx.fee + 1, program_id |-> SystemProgramId]),
             last_ids |-> ring.last_ids,
             last_ids_sigs |-> ring.last_ids_sigs,
             transaction_count |-> st.transaction_count],
            <<tx>>).res[1] = "Ok"

\* C38: a transaction with a signature not seen before that a call of
\* process_transactions rejected with AccountNotFound,
\* InsufficientFundsForFee or LastIdNotFound has not consumed its signature:
\* submitted again once the cause is removed, it returns Ok.
C38_RejectedIsResubmittable ==
    lastOp = "process_transactions" =>
        \A i \in DOMAIN lastTxs :
            (/\ lastRes[i] \in {"AccountNotFound", "InsufficientFundsForFee",
                                "LastIdNotFound"}
             /\ ~has_signature(pre.last_ids_sigs, Sign(lastTxs[i]))
             /\ \A j \in DOMAIN lastTxs : lastTxs[j] = lastTxs[i] => j = i)
                => CauseRemoved(Processor, lastTxs[i])

\* C39: process_entry is all-or-nothing.  When it returns an error, no
\* transaction of the entry is committed (none has the result Ok, the
\* transaction count and the accounts are those from before the call) and
\* the entry's id is not registered; when it returns Ok, every transaction
\* of the entry is committed and the id is the newest of the ring.
C39_EntryAllOrNothing ==
    lastOp = "process_entry" =>
        IF FirstError(lastRes) # "Ok"
        THEN /\ \A i \in DOMAIN lastRes : lastRes[i] # "Ok"
             /\ transaction_count = pre.transaction_count
             /\ accounts = pre.accounts
             /\ last_ids = pre.last_ids
        ELSE /\ \A i \in DOMAIN lastRes : lastRes[i] = "Ok"
             /\ transaction_count = pre.transaction_count + Len(lastTxs)
             /\ last_ids[Len(last_ids)] = hash(pre.last_ids[Len(pre.last_ids)])

\* C40: the ledger of a node that runs as a validator replays: process_ledger
\* of the node's ledger, as run on restart and on role transition, returns
\* Ok and builds the processor the validator holds.
C40_ValidatorLedgerReplays ==
    \A n \in Nodes :
        fullnode[n].node_role = "Validator" =>
            \E out \in {new_transaction_processor_from_ledger(fullnode[n].ledger)} :
                /\ out.result = "Ok"
                /\ out.state = fullnode[n].transaction_processor

=============================================================================
